---- MODULE Spec2Model ----
(***************************************************************************)
(* GST / Tally reconciliation: the in-memory matcher reconcileData          *)
(* (src/utils/reconciliation.js) and the relational matchers of            *)
(* src/index.js (POST /api/reconcile-mapped-data, performSQLReconciliation) *)
(* run on the same uploaded rows and the same column mapping.              *)
(*                                                                         *)
(* A JavaScript string is a sequence of one-character strings, so that     *)
(* trim, toLowerCase and join are computed character by character.         *)
(* Rows are numbered 1..n in input order (the code's index + 1).           *)
(***************************************************************************)
EXTENDS Integers, Sequences, FiniteSets, TLC

\* Largest number of rows of each uploaded sheet.
MaxRows == 2
\* Largest number of mapped column pairs.
MaxCols == 5

(***************************************************************************)
(* JavaScript values and the string primitives the code uses.              *)
(***************************************************************************)
Str(s) == [k |-> "str", s |-> s, n |-> 0]
Num(n) == [k |-> "num", s |-> <<>>, n |-> n]
\* null and undefined (an absent cell): both falsy, both "no value".
Null == [k |-> "nul", s |-> <<>>, n |-> 0]

Truthy(v) ==
  CASE v.k = "nul" -> FALSE
    [] v.k = "num" -> v.n # 0
    [] OTHER -> v.s # <<>>

DigitChar(d) == <<"0", "1", "2", "3", "4", "5", "6", "7", "8", "9">>[d + 1]

RECURSIVE Digits(_)
Digits(n) == IF n < 10 THEN <<DigitChar(n)>> ELSE Digits(n \div 10) \o <<DigitChar(n % 10)>>

IsDigit(c) == c \in {"0", "1", "2", "3", "4", "5", "6", "7", "8", "9"}

DigitVal(c) == CHOOSE d \in 0..9 : DigitChar(d) = c

\* The number a string of digits denotes (0 for no digit).
RECURSIVE NatOf(_)
NatOf(digs) ==
  IF digs = <<>> THEN 0
  ELSE 10 * NatOf(SubSeq(digs, 1, Len(digs) - 1)) + DigitVal(digs[Len(digs)])

IsLeap(y) == (y % 4 = 0 /\ y % 100 # 0) \/ y % 400 = 0

YearLen(y) == IF IsLeap(y) THEN 366 ELSE 365

MonthLen(y, m) ==
  IF m = 2 THEN (IF IsLeap(y) THEN 29 ELSE 28)
  ELSE IF m \in {4, 6, 9, 11} THEN 30 ELSE 31

\* YYYY-MM-DD
IsIsoDate(s) ==
  /\ Len(s) = 10
  /\ \A i \in {1, 2, 3, 4, 6, 7, 9, 10} : IsDigit(s[i])
  /\ s[5] = "-" /\ s[8] = "-"

\* A DATE value read from the database: a JavaScript Date at midnight of the
\* day iso (YYYY-MM-DD).
Date(iso) == [k |-> "date", s |-> iso, n |-> 0]

\* The days from 1 January 1900 to the first day of the year y.
DaysToYear(y) ==
  IF y <= 1900 THEN 0
  ELSE 365 * (y - 1900)
       + (((y - 1) \div 4) - ((y - 1) \div 100) + ((y - 1) \div 400))
       - ((1899 \div 4) - (1899 \div 100) + (1899 \div 400))

\* The days from the first day of the year y to the first day of its month m.
RECURSIVE DaysToMonth(_, _)
DaysToMonth(y, m) == IF m <= 1 THEN 0 ELSE DaysToMonth(y, m - 1) + MonthLen(y, m - 1)

WeekdayNames == <<<<"M", "o", "n">>, <<"T", "u", "e">>, <<"W", "e", "d">>, <<"T", "h", "u">>, <<"F", "r", "i">>, <<"S", "a", "t">>, <<"S", "u", "n">>>>

MonthNames ==
  <<<<"J", "a", "n">>, <<"F", "e", "b">>, <<"M", "a", "r">>, <<"A", "p", "r">>, <<"M", "a", "y">>, <<"J", "u", "n">>,
    <<"J", "u", "l">>, <<"A", "u", "g">>, <<"S", "e", "p">>, <<"O", "c", "t">>, <<"N", "o", "v">>, <<"D", "e", "c">>>>

\* Date.prototype.toString, without the zone suffix: "Mon Jan 15 2024 00:00:00 GMT";
\* 1 January 1900 was a Monday.
DateString(iso) ==
  WeekdayNames[((DaysToYear(NatOf(SubSeq(iso, 1, 4)))
                 + DaysToMonth(NatOf(SubSeq(iso, 1, 4)), NatOf(SubSeq(iso, 6, 7)))
                 + NatOf(SubSeq(iso, 9, 10)) - 1) % 7) + 1]
  \o <<" ">> \o MonthNames[NatOf(SubSeq(iso, 6, 7))]
  \o <<" ">> \o SubSeq(iso, 9, 10)
  \o <<" ">> \o SubSeq(iso, 1, 4)
  \o <<" ", "0", "0", ":", "0", "0", ":", "0", "0", " ", "G", "M", "T">>

\* String(v)
JsString(v) ==
  CASE v.k = "nul" -> <<"n", "u", "l", "l">>
    [] v.k = "num" -> Digits(v.n)
    [] v.k = "date" -> DateString(v.s)
    [] OTHER -> v.s

\* v || ''
OrEmpty(v) == IF Truthy(v) THEN v ELSE Str(<<>>)

\* v || null
OrNull(v) == IF Truthy(v) THEN v ELSE Null

IsSpace(c) == c = " "

RECURSIVE TrimLeft(_)
TrimLeft(s) == IF s # <<>> /\ IsSpace(Head(s)) THEN TrimLeft(Tail(s)) ELSE s

RECURSIVE TrimRight(_)
TrimRight(s) ==
  IF s # <<>> /\ IsSpace(s[Len(s)]) THEN TrimRight(SubSeq(s, 1, Len(s) - 1)) ELSE s

\* String.prototype.trim
Trim(s) == TrimRight(TrimLeft(s))

UpperLetters ==
  <<"A", "B", "C", "D", "E", "F", "G", "H", "I", "J", "K", "L", "M",
    "N", "O", "P", "Q", "R", "S", "T", "U", "V", "W", "X", "Y", "Z">>

LowerLetters ==
  <<"a", "b", "c", "d", "e", "f", "g", "h", "i", "j", "k", "l", "m",
    "n", "o", "p", "q", "r", "s", "t", "u", "v", "w", "x", "y", "z">>

LowerChar(c) ==
  IF \E i \in 1..26 : UpperLetters[i] = c
    THEN LowerLetters[CHOOSE i \in 1..26 : UpperLetters[i] = c]
    ELSE c

\* String.prototype.toLowerCase
ToLowerCase(s) == [i \in 1..Len(s) |-> LowerChar(s[i])]

\* Array.prototype.join
RECURSIVE Join(_, _)
Join(parts, sep) ==
  IF parts = <<>> THEN <<>>
  ELSE IF Len(parts) = 1 THEN parts[1]
  ELSE parts[1] \o sep \o Join(Tail(parts), sep)

Min(a, b) == IF a < b THEN a ELSE b

\* record[col]: undefined when the record has no such column.
Field(record, col) == IF col \in DOMAIN record THEN record[col] ELSE Null

(***************************************************************************)
(* src/utils/reconciliation.js                                             *)
(***************************************************************************)
\* String(record[col] || '').trim().toLowerCase()
FieldKey(record, col) == ToLowerCase(Trim(JsString(OrEmpty(Field(record, col)))))

createKey(record, columns) ==
  Join([i \in 1..Len(columns) |-> FieldKey(record, columns[i])], <<"|">>)

\* The positions i of the mapped pairs whose values differ, in increasing order.
RECURSIVE DiscrepanciesFrom(_, _, _, _, _)
DiscrepanciesFrom(i, gstRecord, tallyRecord, gstCols, tallyCols) ==
  IF i > Min(Len(gstCols), Len(tallyCols)) THEN <<>>
  ELSE (IF FieldKey(gstRecord, gstCols[i]) # FieldKey(tallyRecord, tallyCols[i])
          THEN <<i>> ELSE <<>>)
       \o DiscrepanciesFrom(i + 1, gstRecord, tallyRecord, gstCols, tallyCols)

findDiscrepancies(gstRecord, tallyRecord, gstCols, tallyCols) ==
  DiscrepanciesFrom(1, gstRecord, tallyRecord, gstCols, tallyCols)

(***************************************************************************)
(* Inputs: the uploaded rows and the column mapping of one run.            *)
(***************************************************************************)
a == Str(<<"a">>)
b == Str(<<"b">>)

RowAll(v) == [i \in 1..MaxCols |-> v]
\* v in the first k columns, w in the others.
RowFirst(k, v, w) == [i \in 1..MaxCols |-> IF i <= k THEN v ELSE w]
\* v in column c, w in the others.
RowOne(c, v, w) == [i \in 1..MaxCols |-> IF i = c THEN v ELSE w]

GstPool ==
  { RowAll(a),
    RowOne(1, Str(<<"a", "|", "a">>), a),
    RowFirst(1, b, a) }

TallyPool ==
  { RowAll(a),
    RowOne(1, Str(<<" ", "A">>), Str(<<"A">>)),
    RowOne(2, Str(<<"a", "|", "a">>), a),
    RowFirst(4, b, a) }

SeqsUpTo(S, n) == UNION {[1..k -> S] : k \in 0..n}

\* The column list naming the first n columns.
Cols(n) == [i \in 1..n |-> i]

Indices(n) == [i \in 1..n |-> i]

VARIABLES
  gstData, tallyData,        \* the uploaded rows
  gstColumns, tallyColumns,  \* the column mapping
  pc,                        \* position in the run
  tallyMap,                  \* reconcileData: key -> Tally rows with that key
  matchedGstIds, matchedTallyIds,
  exactMatches, partialMatches, gstMismatches, tallyMismatches,
  gstTable, tallyTable,      \* the mapped tables: rows [id, cells]
  intersectRows,             \* /api/reconcile-mapped-data: rows of the INTERSECT
  mapped,                    \* /api/reconcile-mapped-data: its working state and answer
  gstHeader, tallyHeader,    \* the name of every sheet column
  gstDateColumns, tallyDateColumns,  \* /api/save-mapping: the columns stored as DATE
  api,                       \* /api/reconcile: stored result, column mapping and answer
  baseline,                  \* the result of an earlier reconcileData call, kept for comparison
  arg, out,                  \* a raw value and what the value functions return for it
  clock,                     \* Date.now()
  requests,                  \* /api/save-mapping: the requests being served at once
  tables,                    \* the mapped tables of the database, by name
  mappingLogs,               \* the rows of mapping_logs
  zoneGain                   \* the seconds the local clock of the server gained on UTC since 1 January 1900

vars == <<gstData, tallyData, gstColumns, tallyColumns, pc, tallyMap,
          matchedGstIds, matchedTallyIds,
          exactMatches, partialMatches, gstMismatches, tallyMismatches,
          gstTable, tallyTable, intersectRows, mapped,
          gstHeader, tallyHeader, gstDateColumns, tallyDateColumns,
          api, baseline, arg, out, clock, requests, tables, mappingLogs, zoneGain>>

memVars == <<tallyMap, matchedGstIds, matchedTallyIds,
             exactMatches, partialMatches, gstMismatches, tallyMismatches>>

dateVars == <<gstDateColumns, tallyDateColumns>>

dbVars == <<gstTable, tallyTable, intersectRows, mapped, dateVars>>

runVars == <<clock, requests, tables, mappingLogs>>

otherVars == <<api, baseline, arg, out, runVars>>

\* The working state of /api/reconcile-mapped-data before it has run.
NoMapped ==
  [exact |-> <<>>, partial |-> <<>>, matchedGstIds |-> {}, matchedTallyIds |-> {},
   gstOnly |-> <<>>, tallyOnly |-> <<>>, status |-> 0]

\* Column names c1, c2, ...: no date column, no tax column.
PlainHeader == [c \in 1..MaxCols |-> <<"c">> \o Digits(c)]

\* /api/reconcile before it has run.
NoApi == [results |-> <<>>, mappings |-> <<>>, status |-> 0, success |-> FALSE, summary |-> <<>>]

\* No earlier reconcileData call.
NoBaseline == [set |-> FALSE]

\* No value function applied yet.
NoOut == [set |-> FALSE]

\* No /api/save-mapping request served at once with another, no mapped table.
NoRuns ==
  /\ clock = 0
  /\ requests = <<>>
  /\ tables = <<>>
  /\ mappingLogs = <<>>

inputVars == <<gstData, tallyData, gstColumns, tallyColumns, gstHeader, tallyHeader, zoneGain>>

Init ==
  /\ gstData \in SeqsUpTo(GstPool, MaxRows)
  /\ tallyData \in SeqsUpTo(TallyPool, MaxRows)
  /\ gstColumns \in {Cols(n) : n \in 0..MaxCols}
  /\ tallyColumns \in {Cols(n) : n \in {Len(gstColumns), Len(gstColumns) - 1} \cap (0..MaxCols)}
  /\ pc = "start"
  /\ tallyMap = <<>>
  /\ matchedGstIds = {}
  /\ matchedTallyIds = {}
  /\ exactMatches = <<>>
  /\ partialMatches = <<>>
  /\ gstMismatches = <<>>
  /\ tallyMismatches = <<>>
  /\ gstTable = <<>>
  /\ tallyTable = <<>>
  /\ intersectRows = <<>>
  /\ mapped = NoMapped
  /\ gstHeader = PlainHeader
  /\ tallyHeader = PlainHeader
  /\ gstDateColumns = {}
  /\ tallyDateColumns = {}
  /\ api = NoApi
  /\ baseline = NoBaseline
  /\ arg = Null
  /\ out = NoOut
  /\ NoRuns
  /\ zoneGain = 0

(***************************************************************************)
(* reconcileData, one action per loop of the function.                     *)
(***************************************************************************)
\* TallyMapOf with tallyMap.set(key, [record]) on every row: the last row of a
\* key replaces the earlier ones.
TallyMapOverwrite(tData, tCols) ==
  [key \in {createKey(tData[i], tCols) : i \in DOMAIN tData} |->
     LET rows == SelectSeq(Indices(Len(tData)), LAMBDA i : createKey(tData[i], tCols) = key)
     IN <<rows[Len(rows)]>>]

\* tallyMap after the first forEach: every key of a Tally row, mapped to the
\* rows having it, in row order.
TallyMapOf(tData, tCols) ==
  [key \in {createKey(tData[i], tCols) : i \in DOMAIN tData} |->
     SelectSeq(Indices(Len(tData)), LAMBDA i : createKey(tData[i], tCols) = key)]

BuildTallyMap ==
  /\ pc = "start"
  /\ tallyMap' = TallyMapOf(tallyData, tallyColumns)
  /\ pc' = "exact"
  /\ UNCHANGED <<inputVars, otherVars, matchedGstIds, matchedTallyIds,
                 exactMatches, partialMatches, gstMismatches, tallyMismatches, dbVars>>

\* if (!matchedTallyIds.has(tallyRecord._index))
TallyFree(matched, ti) == ti \notin matched

\* tallyMatches.forEach(...) for the GST row gi, from position j on.
RECURSIVE ExactInner(_, _, _, _)
ExactInner(tallyMatches, j, gi, st) ==
  IF j > Len(tallyMatches) THEN st
  ELSE LET ti == tallyMatches[j] IN
       ExactInner(tallyMatches, j + 1, gi,
         IF TallyFree(st.mT, ti)
           THEN [exact |-> Append(st.exact, [g |-> gi, t |-> ti]),
                 mT |-> st.mT \cup {ti},
                 mG |-> st.mG \cup {gi}]
           ELSE st)

\* The last GST row the matching loops visit.
LastGstRow == Len(gstData)

\* gstData.forEach(...) of the exact pass, from the GST row gi on.
RECURSIVE ExactLoop(_, _)
ExactLoop(gi, st) ==
  IF gi > LastGstRow THEN st
  ELSE LET gstKey == createKey(gstData[gi], gstColumns) IN
       ExactLoop(gi + 1,
         IF gstKey \in DOMAIN tallyMap
           THEN ExactInner(tallyMap[gstKey], 1, gi, st)
           ELSE st)

ExactPass ==
  /\ pc = "exact"
  /\ LET st == ExactLoop(1, [exact |-> exactMatches, mT |-> matchedTallyIds,
                             mG |-> matchedGstIds]) IN
       /\ exactMatches' = st.exact
       /\ matchedTallyIds' = st.mT
       /\ matchedGstIds' = st.mG
  /\ pc' = "partial"
  /\ UNCHANGED <<inputVars, otherVars, tallyMap, partialMatches, gstMismatches, tallyMismatches, dbVars>>

\* discrepancies.length > 0 && discrepancies.length < gstColumns.length
IsPartial(discrepancies) ==
  Len(discrepancies) > 0 /\ Len(discrepancies) < Len(gstColumns)

\* PartialSkipsTally without the matchedTallyIds test.
PartialSkipsTallyNever(matched, ti) == FALSE

\* if (matchedTallyIds.has(tallyIndex)) return;
PartialSkipsTally(matched, ti) == ti \in matched

\* tallyData.forEach(...) of the partial pass for the GST row gi, from ti on.
RECURSIVE PartialInner(_, _, _)
PartialInner(gi, ti, st) ==
  IF ti > Len(tallyData) THEN st
  ELSE IF PartialSkipsTally(st.mT, ti) THEN PartialInner(gi, ti + 1, st)
  ELSE LET d == findDiscrepancies(gstData[gi], tallyData[ti], gstColumns, tallyColumns) IN
       PartialInner(gi, ti + 1,
         IF IsPartial(d)
           THEN [partial |-> Append(st.partial, [g |-> gi, t |-> ti, discrepancies |-> d]),
                 mT |-> st.mT \cup {ti},
                 mG |-> st.mG \cup {gi}]
           ELSE st)

\* gstData.forEach(...) of the partial pass, from the GST row gi on.
RECURSIVE PartialLoop(_, _)
PartialLoop(gi, st) ==
  IF gi > LastGstRow THEN st
  ELSE PartialLoop(gi + 1, IF gi \in st.mG THEN st ELSE PartialInner(gi, 1, st))

PartialPass ==
  /\ pc = "partial"
  /\ LET st == PartialLoop(1, [partial |-> partialMatches, mT |-> matchedTallyIds,
                               mG |-> matchedGstIds]) IN
       /\ partialMatches' = st.partial
       /\ matchedTallyIds' = st.mT
       /\ matchedGstIds' = st.mG
  /\ pc' = "unmatched"
  /\ UNCHANGED <<inputVars, otherVars, tallyMap, exactMatches, gstMismatches, tallyMismatches, dbVars>>

\* The rows 1..n that are not in matched, in row order.
Unmatched(n, matched) == SelectSeq(Indices(n), LAMBDA i : i \notin matched)

CollectUnmatched ==
  /\ pc = "unmatched"
  /\ gstMismatches' = Unmatched(Len(gstData), matchedGstIds)
  /\ tallyMismatches' = Unmatched(Len(tallyData), matchedTallyIds)
  /\ pc' = "returned"
  /\ UNCHANGED <<inputVars, otherVars, tallyMap, matchedGstIds, matchedTallyIds,
                 exactMatches, partialMatches, dbVars>>

(***************************************************************************)
(* src/index.js: the value functions (normalizeValueForDB, normalizeValue, *)
(* isDateValue, excelSerialToDate, convertToStandardDate) and the          *)
(* JavaScript number parsers they call.  No value of the model is written  *)
(* with an exponent, a hexadecimal prefix or as "Infinity".                *)
(***************************************************************************)
\* normalizeValueForDB testing for '-' before it trims.
normalizeValueUntrimmedDash(value) ==
  IF value.k = "nul" \/ (value.k = "str" /\ value.s = <<>>) THEN Num(0)
  ELSE IF JsString(value) = <<"-">> THEN Num(0) ELSE Str(Trim(JsString(value)))

\* normalizeValue of the file parser.
normalizeValue(value) ==
  IF value.k = "nul" \/ (value.k = "str" /\ value.s = <<>>) THEN Num(0)
  ELSE LET strValue == Trim(JsString(value)) IN
       IF strValue = <<"-">> THEN Num(0) ELSE Str(strValue)

\* A boolean result, as a value.
Bool(p) == [k |-> "bool", s |-> <<>>, n |-> IF p THEN 1 ELSE 0]

\* The number of digits the string starts with.
RECURSIVE DigitsPrefixLen(_)
DigitsPrefixLen(s) ==
  IF s # <<>> /\ IsDigit(Head(s)) THEN 1 + DigitsPrefixLen(Tail(s)) ELSE 0

NaN == [nan |-> TRUE, neg |-> FALSE, int |-> 0, frac |-> <<>>]

\* parseFloat(s): the longest prefix [+-]digits[.digits] after leading
\* whitespace; int is the integer part, frac the digits after the point.
ParseFloat(s0) ==
  LET s == TrimLeft(s0)
      signed == s # <<>> /\ s[1] \in {"+", "-"}
      body == IF signed THEN Tail(s) ELSE s
      n == DigitsPrefixLen(body)
      rest == SubSeq(body, n + 1, Len(body))
      m == IF rest # <<>> /\ rest[1] = "." THEN DigitsPrefixLen(Tail(rest)) ELSE 0
  IN IF n = 0 /\ m = 0 THEN NaN
     ELSE [nan |-> FALSE, neg |-> signed /\ s[1] = "-",
           int |-> NatOf(SubSeq(body, 1, n)), frac |-> SubSeq(rest, 2, m + 1)]

\* parseInt(s): the longest prefix [+]digits after leading whitespace (no part
\* of a date holds a minus sign: the parts are split at it).
ParseInt(s0) ==
  LET s == TrimLeft(s0)
      body == IF s # <<>> /\ s[1] = "+" THEN Tail(s) ELSE s
      n == DigitsPrefixLen(body)
  IN IF n = 0 THEN [nan |-> TRUE, n |-> 0]
     ELSE [nan |-> FALSE, n |-> NatOf(SubSeq(body, 1, n))]

\* x < k and x > k of JavaScript: false of NaN.
JsLess(x, k) == ~x.nan /\ x.n < k
JsGreater(x, k) == ~x.nan /\ x.n > k

isValidDate(year, month, day) ==
  LET y == ParseInt(year)
      m == ParseInt(month)
      d == ParseInt(day)
  IN ~(JsLess(m, 1) \/ JsGreater(m, 12))
     /\ ~(JsLess(d, 1) \/ JsGreater(d, 31))
     /\ ~(JsLess(y, 1900) \/ JsGreater(y, 2100))

\* The bounds of the Excel serials taken for dates.
SerialLow == 30000
SerialHigh == 50000

\* numVal > 30000 && numVal < 50000
InSerialRange(x) ==
  /\ ~x.nan
  /\ ~x.neg
  /\ \/ x.int > SerialLow
     \/ x.int = SerialLow /\ \E i \in DOMAIN x.frac : x.frac[i] # "0"
  /\ x.int < SerialHigh

IsSeparator(c) == c \in {"-", "/"}

\* str.split(/[-/]/)
RECURSIVE SplitParts(_, _)
SplitParts(s, part) ==
  IF s = <<>> THEN <<part>>
  ELSE IF IsSeparator(Head(s)) THEN <<part>> \o SplitParts(Tail(s), <<>>)
  ELSE SplitParts(Tail(s), Append(part, Head(s)))

Split(s) == SplitParts(s, <<>>)

AllDigits(s) == \A i \in DOMAIN s : IsDigit(s[i])

\* /^\d{1,4}[-/]\d{1,2}[-/]\d{1,4}$/.test(str)
DatePattern(str) ==
  LET parts == Split(str) IN
  /\ Len(parts) = 3
  /\ \A i \in 1..3 : AllDigits(parts[i])
  /\ Len(parts[1]) \in 1..4
  /\ Len(parts[2]) \in 1..2
  /\ Len(parts[3]) \in 1..4

isDateValue(value) ==
  IF ~Truthy(value) THEN FALSE
  ELSE LET str == Trim(JsString(value))
           numVal == ParseFloat(str)
           parts == Split(str)
       IN IF InSerialRange(numVal) THEN TRUE
          ELSE IF ~DatePattern(str) THEN FALSE
          ELSE IF Len(parts) # 3 THEN FALSE
          ELSE IF Len(parts[1]) = 4 THEN isValidDate(parts[1], parts[2], parts[3])
          ELSE IF Len(parts[3]) = 4 THEN isValidDate(parts[3], parts[2], parts[1])
          ELSE FALSE

\* String(n).padStart(2, '0') of a string
PadStart2(s) == IF Len(s) < 2 THEN <<"0">> \o s ELSE s

\* The calendar day d days after the first day of month m of year y.
RECURSIVE DayInYear(_, _, _)
DayInYear(y, m, d) ==
  IF d >= MonthLen(y, m) THEN DayInYear(y, m + 1, d - MonthLen(y, m))
  ELSE [year |-> y, month |-> m, day |-> d + 1]

\* The calendar day d days after 1 January of year y.
RECURSIVE DayFrom(_, _)
DayFrom(y, d) ==
  IF d >= YearLen(y) THEN DayFrom(y + 1, d - YearLen(y)) ELSE DayInYear(y, 1, d)

\* The first year of Excel's day count: new Date(1900, 0, 1).
ExcelEpochYear == 1900
\* Excel counts a 29 February 1900: serials after 59 are one day ahead.
ExcelLeapBug == 59

\* millisecondsPerDay, in seconds.
SecondsPerDay == 86400

\* The part of a day after the point of a serial, in seconds (two decimals).
FracSeconds(frac) ==
  (((IF Len(frac) >= 1 THEN 10 * DigitVal(frac[1]) ELSE 0)
    + (IF Len(frac) >= 2 THEN DigitVal(frac[2]) ELSE 0)) * SecondsPerDay) \div 100

\* getDate(), getMonth(), getFullYear() of the Date that is `days` days and
\* `seconds` seconds of UTC time after the local midnight of 1 January 1900:
\* the local clock shows zoneGain seconds more than that.
LocalDay(days, seconds) ==
  IF days + ((seconds + zoneGain) \div SecondsPerDay) < 0
    THEN [year |-> 1899, month |-> 12, day |-> 31]
    ELSE DayFrom(ExcelEpochYear, days + ((seconds + zoneGain) \div SecondsPerDay))

\* excelSerialToDate of a number: the local day of the Date that is
\* (adjustedSerial - 1) * millisecondsPerDay after new Date(1900, 0, 1).
excelSerialToDate(numSerial) ==
  IF numSerial.nan \/ numSerial.neg THEN Null
  ELSE LET after == numSerial.int > ExcelLeapBug
                    \/ (numSerial.int = ExcelLeapBug
                        /\ \E i \in DOMAIN numSerial.frac : numSerial.frac[i] # "0")
           days == IF after THEN numSerial.int - 2 ELSE numSerial.int - 1
           date == LocalDay(days, FracSeconds(numSerial.frac))
       IN Str(Digits(date.year) \o <<"-">> \o PadStart2(Digits(date.month))
              \o <<"-">> \o PadStart2(Digits(date.day)))

\* The year, month and day parts put together: `${year}-${month}-${day}`
DateText(year, month, day) ==
  Str(year \o <<"-">> \o PadStart2(month) \o <<"-">> \o PadStart2(day))

convertToStandardDate(value) ==
  IF ~Truthy(value) THEN Null
  ELSE LET str == Trim(JsString(value))
           numVal == ParseFloat(str)
           parts == Split(str)
       IN IF InSerialRange(numVal) /\ excelSerialToDate(numVal) # Null
            THEN excelSerialToDate(numVal)
          ELSE IF Len(parts) # 3 THEN Null
          ELSE IF Len(parts[1]) = 4
            THEN (IF isValidDate(parts[1], parts[2], parts[3])
                    THEN DateText(parts[1], parts[2], parts[3]) ELSE Null)
          ELSE IF Len(parts[3]) = 4
            THEN (IF isValidDate(parts[3], parts[2], parts[1])
                    THEN DateText(parts[3], parts[2], parts[1]) ELSE Null)
          ELSE Null

(***************************************************************************)
(* src/index.js: POST /api/save-mapping: date-column detection, the two    *)
(* mapped tables and their rows.                                           *)
(***************************************************************************)
normalizeValueForDB(value) ==
  IF value.k = "nul" \/ (value.k = "str" /\ value.s = <<>>) THEN Num(0)
  ELSE LET strValue == Trim(JsString(value)) IN
       IF strValue = <<"-">> THEN Num(0) ELSE Str(strValue)

\* A query parameter written to a TEXT column: a number is stored as its
\* decimal text, null as NULL.
PgText(v) == IF v.k = "nul" THEN Null ELSE Str(JsString(v))

\* The column name '': no record has a cell of that name.
EmptyCol == 0

\* The positions of the mapping pairs with both sides present
\* (.filter(m => m.gstCol && m.tallyCol)).
ValidMappings ==
  SelectSeq(Indices(Len(gstColumns)),
            LAMBDA i : /\ gstColumns[i] # EmptyCol
                       /\ i <= Len(tallyColumns)
                       /\ tallyColumns[i] # EmptyCol)

\* The name of a sheet column; '' for the empty column name.
HeaderName(header, col) == IF col \in DOMAIN header THEN header[col] ELSE <<>>

InvoiceDateName == <<"i", "n", "v", "o", "i", "c", "e", " ", "d", "a", "t", "e">>

\* m.gstCol.toLowerCase().trim() === 'invoice date'
IsInvoiceDate(name) == Trim(ToLowerCase(name)) = InvoiceDateName

\* The number of rows the detection looks at.
SampleSize == 10

\* SampleEnd without the limit of 10 rows.
SampleEndAll(data) == Len(data)

\* Math.min(10, data.length)
SampleEnd(data) == Min(SampleSize, Len(data))

\* val && String(val).trim()
NonEmptyValue(val) == Truthy(val) /\ Trim(JsString(val)) # <<>>

\* The for loop over the first rows, from the row i on: allDatesOrEmpty &&
\* hasAtLeastOneDate at its end; the first value that is not a date ends it.
RECURSIVE DetectFrom(_, _, _, _)
DetectFrom(data, col, i, hasAtLeastOneDate) ==
  IF i > SampleEnd(data) THEN hasAtLeastOneDate
  ELSE IF ~NonEmptyValue(Field(data[i], col)) THEN DetectFrom(data, col, i + 1, hasAtLeastOneDate)
  ELSE IF isDateValue(Field(data[i], col)) THEN DetectFrom(data, col, i + 1, TRUE)
  ELSE FALSE

\* gstDateColumns / tallyDateColumns: the mapped columns named "Invoice Date"
\* whose first rows hold dates.
DateColumnsOf(data, header, cols) ==
  {c \in {cols[ValidMappings[k]] : k \in DOMAIN ValidMappings} :
     IsInvoiceDate(HeaderName(header, c)) /\ DetectFrom(data, c, 1, FALSE)}

\* A day of the calendar.
IsCalendarDay(iso) ==
  /\ NatOf(SubSeq(iso, 1, 4)) >= 1
  /\ NatOf(SubSeq(iso, 6, 7)) \in 1..12
  /\ NatOf(SubSeq(iso, 9, 10)) \in 1..MonthLen(NatOf(SubSeq(iso, 1, 4)), NatOf(SubSeq(iso, 6, 7)))

\* A query parameter PostgreSQL takes for a DATE column: null, or the text
\* YYYY-MM-DD of a day of the calendar.
PgDateAccepts(v) == v.k = "nul" \/ (IsIsoDate(v.s) /\ IsCalendarDay(v.s))

\* The DATE value stored for an accepted parameter.
PgDate(v) == IF v.k = "nul" THEN Null ELSE Date(v.s)

\* The parameter of the insert for one cell.
InsertValue(val, isDate) ==
  IF isDate THEN convertToStandardDate(val) ELSE normalizeValueForDB(val)

\* The values of the insert for one sheet row.
InsertValues(row, cols, dateCols) ==
  [k \in 1..Len(ValidMappings) |->
     InsertValue(OrNull(Field(row, cols[ValidMappings[k]])), cols[ValidMappings[k]] \in dateCols)]

\* The row stored for accepted values; id is the SERIAL key.
MappedRow(values, cols, dateCols, id) ==
  [id |-> id,
   cells |-> [k \in 1..Len(ValidMappings) |->
                IF cols[ValidMappings[k]] \in dateCols THEN PgDate(values[k]) ELSE PgText(values[k])]]

\* PostgreSQL takes the values of the row.
RowAccepted(row, cols, dateCols) ==
  \A k \in 1..Len(ValidMappings) :
    cols[ValidMappings[k]] \in dateCols => PgDateAccepts(InsertValues(row, cols, dateCols)[k])

\* The number of rows inserted before the first insert that fails.
RECURSIVE InsertedFrom(_, _, _, _)
InsertedFrom(data, cols, dateCols, i) ==
  IF i > Len(data) \/ ~RowAccepted(data[i], cols, dateCols) THEN i - 1
  ELSE InsertedFrom(data, cols, dateCols, i + 1)

\* The table after the inserts of the first n rows.
TableOf(data, cols, dateCols, n) ==
  [i \in 1..n |-> MappedRow(InsertValues(data[i], cols, dateCols), cols, dateCols, i)]

\* The two tables and the answer, for the date columns detected.
SaveRows(gstDates, tallyDates) ==
  /\ gstTable' = TableOf(gstData, gstColumns, gstDates,
                         InsertedFrom(gstData, gstColumns, gstDates, 1))
  /\ tallyTable' =
       IF InsertedFrom(gstData, gstColumns, gstDates, 1) < Len(gstData) THEN <<>>
       ELSE TableOf(tallyData, tallyColumns, tallyDates,
                    InsertedFrom(tallyData, tallyColumns, tallyDates, 1))
  /\ pc' = IF /\ InsertedFrom(gstData, gstColumns, gstDates, 1) = Len(gstData)
              /\ InsertedFrom(tallyData, tallyColumns, tallyDates, 1) = Len(tallyData)
             THEN "stored" ELSE "failed"

\* The values inserted for one sheet row into text columns (storeMappedData).
StoredRow(row, cols, id) ==
  [id |-> id,
   cells |-> [k \in 1..Len(ValidMappings) |->
                PgText(normalizeValueForDB(OrNull(Field(row, cols[ValidMappings[k]]))))]]

SaveMapping ==
  /\ pc = "returned"
  /\ IF Len(ValidMappings) = 0
       THEN /\ pc' = "rejected"
            /\ UNCHANGED <<gstTable, tallyTable, dateVars>>
       ELSE /\ gstDateColumns' = DateColumnsOf(gstData, gstHeader, gstColumns)
            /\ tallyDateColumns' = DateColumnsOf(tallyData, tallyHeader, tallyColumns)
            /\ SaveRows(DateColumnsOf(gstData, gstHeader, gstColumns),
                        DateColumnsOf(tallyData, tallyHeader, tallyColumns))
  /\ UNCHANGED <<inputVars, otherVars, memVars, intersectRows, mapped>>

(***************************************************************************)
(* src/index.js: POST /api/reconcile-mapped-data, called with the tables   *)
(* and the column lists of the run.                                        *)
(***************************************************************************)
\* SELECT gst columns FROM gst INTERSECT SELECT tally columns FROM tally: the
\* distinct rows of the first that are rows of the second (NULLs compare equal).
\* The code reads only the set of rows and their number.
IntersectOf(g, t) ==
  LET firsts == SelectSeq(Indices(Len(g)),
                  LAMBDA i : /\ \A j \in 1..(i - 1) : g[j].cells # g[i].cells
                             /\ \E j \in DOMAIN t : t[j].cells = g[i].cells)
  IN [k \in 1..Len(firsts) |-> g[firsts[k]].cells]

MappedIntersect ==
  /\ pc = "stored"
  /\ IF \/ Len(gstColumns) # Len(tallyColumns)
        \/ \E i \in DOMAIN gstColumns :
             (gstColumns[i] \in gstDateColumns) # (tallyColumns[i] \in tallyDateColumns)
       THEN \* the two SELECT lists differ in length, or a DATE column meets a TEXT
            \* column: the query fails, catch answers 500
            /\ mapped' = [mapped EXCEPT !.status = 500]
            /\ pc' = "answered"
            /\ UNCHANGED intersectRows
       ELSE /\ intersectRows' = IntersectOf(gstTable, tallyTable)
            /\ pc' = "intersected"
            /\ UNCHANGED mapped
  /\ UNCHANGED <<inputVars, otherVars, memVars, dateVars, gstTable, tallyTable>>

\* String(v || '').trim()
JsCell(v) == Trim(JsString(OrEmpty(v)))

\* gstColumnNames.every(col => String(row[col] || '').trim() === String(match[col] || '').trim())
RowMatches(row, match) ==
  \A k \in DOMAIN match : JsCell(Field(row.cells, k)) = JsCell(match[k])

\* table.find(...): the id of the first such row, 0 when there is none (the
\* code then uses the INTERSECT row itself, which has no id).
FindRow(table, match) ==
  LET hits == SelectSeq(Indices(Len(table)), LAMBDA i : RowMatches(table[i], match))
  IN IF hits = <<>> THEN 0 ELSE table[hits[1]].id

MappedFormatExact ==
  /\ pc = "intersected"
  /\ LET formatted == [k \in DOMAIN intersectRows |->
                         [gst |-> FindRow(gstTable, intersectRows[k]),
                          tally |-> FindRow(tallyTable, intersectRows[k])]]
     IN mapped' = [mapped EXCEPT
                     !.exact = formatted,
                     !.matchedGstIds = {formatted[k].gst : k \in DOMAIN formatted} \ {0},
                     !.matchedTallyIds = {formatted[k].tally : k \in DOMAIN formatted} \ {0}]
  /\ pc' = "tracked"
  /\ UNCHANGED <<inputVars, otherVars, memVars, dateVars, gstTable, tallyTable, intersectRows>>

\* IsoCollapse that leaves every value as it is.
IsoCollapseNever(s) == s

\* /^\d{4}-\d{2}-\d{2}T/.test(s) ? s.split('T')[0] : s
IsoCollapse(s) ==
  IF /\ Len(s) >= 11
     /\ \A i \in {1, 2, 3, 4, 6, 7, 9, 10} : IsDigit(s[i])
     /\ s[5] = "-" /\ s[8] = "-" /\ s[11] = "T"
    THEN SubSeq(s, 1, 10)
    ELSE s

\* gstVal !== tallyVal for the mapped pair i
MappedDiffers(gstRow, tallyRow, i) ==
  IsoCollapse(JsCell(Field(gstRow.cells, i))) # IsoCollapse(JsCell(Field(tallyRow.cells, i)))

\* currentDiscrepancyColumns: the differing pairs, in column order.
DiscrepancyColumns(gstRow, tallyRow) ==
  SelectSeq(Indices(Len(gstColumns)), LAMBDA i : MappedDiffers(gstRow, tallyRow, i))

\* The most discrepancies a partial match may have.
Budget == 3
\* let bestDiscrepancies = 999
BestInitial == 999

\* Better with <= for <: a later Tally row with as many discrepancies replaces the best.
BetterOrEqual(currentDiscrepancies, bestDiscrepancies) ==
  /\ currentDiscrepancies >= 1
  /\ currentDiscrepancies <= Budget
  /\ currentDiscrepancies <= bestDiscrepancies

\* currentDiscrepancies >= 1 && currentDiscrepancies <= 3 && currentDiscrepancies < bestDiscrepancies
Better(currentDiscrepancies, bestDiscrepancies) ==
  /\ currentDiscrepancies >= 1
  /\ currentDiscrepancies <= Budget
  /\ currentDiscrepancies < bestDiscrepancies

\* MappedSkipsTally without the matchedTallyIds test.
MappedSkipsTallyNever(matched, id) == FALSE

\* if (matchedTallyIds.has(tallyRow.id)) continue;
MappedSkipsTally(matched, id) == id \in matched

\* for (const tallyRow of tallyData) for one GST row, from the Tally row ti on.
RECURSIVE BestTally(_, _, _, _)
BestTally(gstRow, ti, matchedT, best) ==
  IF ti > Len(tallyTable) THEN best
  ELSE IF MappedSkipsTally(matchedT, tallyTable[ti].id) THEN BestTally(gstRow, ti + 1, matchedT, best)
  ELSE LET cols == DiscrepancyColumns(gstRow, tallyTable[ti]) IN
       BestTally(gstRow, ti + 1, matchedT,
         IF Better(Len(cols), best.n)
           THEN [row |-> tallyTable[ti].id, n |-> Len(cols), cols |-> cols]
           ELSE best)

IsNameChar(c) ==
  IsDigit(c) \/ c = "_" \/ \E i \in 1..26 : LowerLetters[i] = c

\* Date.now() when a column has no usable name.
RequestTime == 1

\* .replace(/[^a-z0-9_]/g, '_')
ReplaceOthers(s) == [i \in 1..Len(s) |-> IF IsNameChar(s[i]) THEN s[i] ELSE "_"]

\* .replace(/_+/g, '_')
CollapseUnderscores(s) ==
  SelectSeq([i \in 1..Len(s) |-> IF s[i] = "_" /\ i > 1 /\ s[i - 1] = "_" THEN "" ELSE s[i]],
            LAMBDA c : c # "")

\* .replace(/^_|_$/g, ''): one underscore less at the start and at the end.
StripLeading(s) == IF s # <<>> /\ Head(s) = "_" THEN Tail(s) ELSE s
StripTrailing(s) == IF s # <<>> /\ s[Len(s)] = "_" THEN SubSeq(s, 1, Len(s) - 1) ELSE s

\* The name returned for the original name and its sanitized form.
NameOrDefault(name, sanitized) ==
  IF name = <<>> \/ sanitized = <<>> THEN <<"c", "o", "l", "_">> \o Digits(RequestTime)
  ELSE IF IsDigit(sanitized[1]) THEN <<"c", "o", "l", "_">> \o sanitized
  ELSE sanitized

sanitizeColumnName(name) ==
  NameOrDefault(name,
    StripTrailing(StripLeading(CollapseUnderscores(ReplaceOthers(ToLowerCase(name))))))

\* String.prototype.includes
Includes(s, sub) ==
  \E i \in 0..(Len(s) - Len(sub)) : SubSeq(s, i + 1, i + Len(sub)) = sub

TaxColumns ==
  <<<<"t", "a", "x", "a", "b", "l", "e", "_", "v", "a", "l", "u", "e">>,
    <<"c", "o", "l", "_", "t", "a", "x", "a", "b", "l", "e", "_", "v", "a", "l", "u", "e">>,
    <<"i", "g", "s", "t">>,
    <<"c", "o", "l", "_", "i", "g", "s", "t">>,
    <<"c", "g", "s", "t">>,
    <<"c", "o", "l", "_", "c", "g", "s", "t">>,
    <<"s", "g", "s", "t">>,
    <<"c", "o", "l", "_", "s", "g", "s", "t">>,
    <<"i", "n", "t", "e", "g", "r", "a", "t", "e", "d", "_", "t", "a", "x">>,
    <<"c", "o", "l", "_", "i", "n", "t", "e", "g", "r", "a", "t", "e", "d", "_", "t", "a", "x">>,
    <<"c", "e", "n", "t", "r", "a", "l", "_", "t", "a", "x">>,
    <<"c", "o", "l", "_", "c", "e", "n", "t", "r", "a", "l", "_", "t", "a", "x">>,
    <<"s", "t", "a", "t", "e", "_", "u", "t", "_", "t", "a", "x">>,
    <<"c", "o", "l", "_", "s", "t", "a", "t", "e", "_", "u", "t", "_", "t", "a", "x">>>>

\* IsTaxColumn with the fragment amount added to the list.
IsTaxColumnOrAmount(name) ==
  \/ \E k \in DOMAIN TaxColumns : Includes(ToLowerCase(name), TaxColumns[k])
  \/ Includes(ToLowerCase(name), <<"a", "m", "o", "u", "n", "t">>)

\* taxColumns.some(tc => colName.includes(tc)), colName the lower-cased name
IsTaxColumn(name) ==
  \E k \in DOMAIN TaxColumns : Includes(ToLowerCase(name), TaxColumns[k])

\* String(v).replace(/[^0-9.-]/g, '')
NumericChars(s) == SelectSeq(s, LAMBDA c : IsDigit(c) \/ c \in {".", "-"})

\* The number 1, in hundredths.
Unit == 100

\* Hundredths with 1 for NaN.
HundredthsNaNAsOne(x) ==
  IF x.nan THEN Unit
  ELSE LET d1 == IF Len(x.frac) >= 1 THEN DigitVal(x.frac[1]) ELSE 0
           d2 == IF Len(x.frac) >= 2 THEN DigitVal(x.frac[2]) ELSE 0
           v == x.int * Unit + 10 * d1 + d2
       IN IF x.neg THEN 0 - v ELSE v

\* A parsed number in hundredths, 0 for NaN (parseFloat(...) || 0); the values
\* of the model have at most two decimals, which are halves or quarters, so
\* that the code's floating-point differences are exact.
Hundredths(x) ==
  IF x.nan THEN 0
  ELSE LET d1 == IF Len(x.frac) >= 1 THEN DigitVal(x.frac[1]) ELSE 0
           d2 == IF Len(x.frac) >= 2 THEN DigitVal(x.frac[2]) ELSE 0
           v == x.int * Unit + 10 * d1 + d2
       IN IF x.neg THEN 0 - v ELSE v

MoneyOf(text) == Hundredths(ParseFloat(NumericChars(text)))

Abs(x) == IF x < 0 THEN 0 - x ELSE x

Max(x, y) == IF x > y THEN x ELSE y

\* IsLargeDiscrepancy with > for >=.
IsLargeDiscrepancyStrict(diff) == diff > Unit

\* if (diff >= 1)
IsLargeDiscrepancy(diff) == diff >= Unit

\* One entry of currentDiscrepancyColumns.
DiscrepancyOf(gstRow, tallyRow, i) ==
  [columnIndex |-> i,
   gstColumn |-> sanitizeColumnName(HeaderName(gstHeader, gstColumns[i])),
   gstValue |-> IsoCollapse(JsCell(Field(gstRow.cells, i))),
   tallyValue |-> IsoCollapse(JsCell(Field(tallyRow.cells, i)))]

\* discrepancyColumns.forEach(...), from the entry k on.
RECURSIVE SeverityFrom(_, _, _)
SeverityFrom(k, discs, acc) ==
  IF k > Len(discs) THEN acc
  ELSE SeverityFrom(k + 1, discs,
         IF IsTaxColumn(discs[k].gstColumn)
           THEN LET diff == Abs(MoneyOf(discs[k].gstValue) - MoneyOf(discs[k].tallyValue)) IN
                [maxDiscrepancy |-> Max(acc.maxDiscrepancy, diff),
                 hasLargeDiscrepancy |-> acc.hasLargeDiscrepancy \/ IsLargeDiscrepancy(diff)]
           ELSE acc)

\* maxDiscrepancy (in hundredths) and isMinor, from the result of the forEach.
SeverityOf(sev) ==
  [maxDiscrepancy |-> sev.maxDiscrepancy,
   isMinor |-> ~sev.hasLargeDiscrepancy /\ sev.maxDiscrepancy > 0]

Severity(gstRow, tallyRow, cols) ==
  SeverityOf(SeverityFrom(1, [k \in DOMAIN cols |-> DiscrepancyOf(gstRow, tallyRow, cols[k])],
                          [maxDiscrepancy |-> 0, hasLargeDiscrepancy |-> FALSE]))

\* The entry pushed to partialMatches.
PartialEntry(gstId, best, sev) ==
  [gst |-> gstId, tally |-> best.row,
   discrepancies |-> best.n, discrepancyColumns |-> best.cols,
   maxDiscrepancy |-> sev.maxDiscrepancy, isMinor |-> sev.isMinor]

\* The row of a table with the given id.
RowById(table, id) == table[CHOOSE i \in DOMAIN table : table[i].id = id]

\* for (const gstRow of gstData), from the GST row gi on.
RECURSIVE MappedLoop(_, _)
MappedLoop(gi, st) ==
  IF gi > Len(gstTable) THEN st
  ELSE IF gstTable[gi].id \in st.mG THEN MappedLoop(gi + 1, st)
  ELSE LET best == BestTally(gstTable[gi], 1, st.mT,
                             [row |-> 0, n |-> BestInitial, cols |-> <<>>]) IN
       MappedLoop(gi + 1,
         IF best.row # 0 /\ best.n <= Budget
           THEN [partial |-> Append(st.partial,
                               PartialEntry(gstTable[gi].id, best,
                                 Severity(gstTable[gi], RowById(tallyTable, best.row), best.cols))),
                 mG |-> st.mG \cup {gstTable[gi].id},
                 mT |-> st.mT \cup {best.row}]
           ELSE st)

MappedPartialLoop ==
  /\ pc = "tracked"
  /\ LET st == MappedLoop(1, [partial |-> mapped.partial, mG |-> mapped.matchedGstIds,
                              mT |-> mapped.matchedTallyIds]) IN
       mapped' = [mapped EXCEPT !.partial = st.partial,
                                !.matchedGstIds = st.mG,
                                !.matchedTallyIds = st.mT]
  /\ pc' = "looped"
  /\ UNCHANGED <<inputVars, otherVars, memVars, dateVars, gstTable, tallyTable, intersectRows>>

\* table.filter(row => !matched.has(row.id)), as the ids of the rows kept.
OnlyFiltered(table, matched) ==
  LET kept == SelectSeq(Indices(Len(table)), LAMBDA i : table[i].id \notin matched)
  IN [k \in 1..Len(kept) |-> table[kept[k]].id]

MappedRespond ==
  /\ pc = "looped"
  /\ mapped' = [mapped EXCEPT !.gstOnly = OnlyFiltered(gstTable, mapped.matchedGstIds),
                              !.tallyOnly = OnlyFiltered(tallyTable, mapped.matchedTallyIds),
                              !.status = 200]
  /\ pc' = "answered"
  /\ UNCHANGED <<inputVars, otherVars, memVars, dateVars, gstTable, tallyTable, intersectRows>>

(***************************************************************************)
(* src/index.js: performSQLReconciliation, the exact-match query.          *)
(***************************************************************************)
\* g.featureN = t.featureN: never true of a NULL.
SqlEq(x, y) == x.k # "nul" /\ y.k # "nul" /\ x = y

\* The pairs of rows the INNER JOIN ... ON g.feature1 = t.feature1 AND ... joins.
SqlJoinExact(g, t) ==
  {<<g[i].id, t[j].id>> : <<i, j>> \in
     {<<i, j>> \in (DOMAIN g) \X (DOMAIN t) :
        \A k \in DOMAIN g[i].cells : SqlEq(g[i].cells[k], t[j].cells[k])}}

Next ==
  \/ BuildTallyMap
  \/ ExactPass
  \/ PartialPass
  \/ CollectUnmatched
  \/ SaveMapping
  \/ MappedIntersect
  \/ MappedFormatExact
  \/ MappedPartialLoop
  \/ MappedRespond

Spec == Init /\ [][Next]_vars

(***************************************************************************)
(* Properties.                                                             *)
(***************************************************************************)
\* reconcileData has returned its four lists.
Returned == pc \notin {"start", "exact", "partial", "unmatched"}

\* The number of positions of the sequence q that satisfy Test.
CountOf(q, Test(_)) == Cardinality({i \in DOMAIN q : Test(q[i])})

\* The number of result entries of reconcileData that hold the GST row gi.
GstEntries(gi) ==
  CountOf(exactMatches, LAMBDA e : e.g = gi)
    + CountOf(partialMatches, LAMBDA e : e.g = gi)
    + CountOf(gstMismatches, LAMBDA e : e = gi)

\* The number of result entries of reconcileData that hold the Tally row ti.
TallyEntries(ti) ==
  CountOf(exactMatches, LAMBDA e : e.t = ti)
    + CountOf(partialMatches, LAMBDA e : e.t = ti)
    + CountOf(tallyMismatches, LAMBDA e : e = ti)

GstKey(gi) == createKey(gstData[gi], gstColumns)
TallyKey(ti) == createKey(tallyData[ti], tallyColumns)

\* The mapping is well formed: one Tally column for every GST column, at least one pair.
WellFormedMapping == Len(gstColumns) = Len(tallyColumns) /\ Len(gstColumns) >= 1

\* C1: the result of reconcileData satisfies
\* 2*|exactMatches| + 2*|partialMatches| + |gstMismatches| + |tallyMismatches|
\* = |gstData| + |tallyData| (stated for the well-formed mappings, where it already fails).
C1_Totality ==
  (Returned /\ WellFormedMapping) =>
    2 * Len(exactMatches) + 2 * Len(partialMatches)
      + Len(gstMismatches) + Len(tallyMismatches)
    = Len(gstData) + Len(tallyData)

\* C2: every GST row is in exactly one entry of the result of reconcileData
\* (one exact match, one partial match or one GST mismatch), never in two
\* (stated for the well-formed mappings, where it already fails).
C2_GstRowInExactlyOneEntry ==
  (Returned /\ WellFormedMapping) => \A gi \in DOMAIN gstData : GstEntries(gi) = 1

\* C3: every Tally row is in exactly one entry of the result of reconcileData;
\* a Tally row of an exact match is in no partial match.
C3_TallyRowInExactlyOneEntry ==
  Returned =>
    /\ \A ti \in DOMAIN tallyData : TallyEntries(ti) = 1
    /\ \A i \in DOMAIN exactMatches : \A j \in DOMAIN partialMatches :
         exactMatches[i].t # partialMatches[j].t

\* C3 witness: a GST row was partially matched with a Tally row although an
\* earlier Tally row, consumed by the exact pass, was within partial range of it.
C3_Witness ==
  /\ Returned
  /\ \E i \in DOMAIN exactMatches : \E j \in DOMAIN partialMatches :
       /\ exactMatches[i].t < partialMatches[j].t
       /\ IsPartial(findDiscrepancies(gstData[partialMatches[j].g],
                                      tallyData[exactMatches[i].t],
                                      gstColumns, tallyColumns))

\* The GST rows (Tally rows) having the key, in row order.
GstRowsWithKey(key) == SelectSeq(Indices(Len(gstData)), LAMBDA i : GstKey(i) = key)
TallyRowsWithKey(key) == SelectSeq(Indices(Len(tallyData)), LAMBDA i : TallyKey(i) = key)

\* C4: n GST rows and m Tally rows sharing one key give exactly min(n, m) exact
\* matches for it, the k-th such GST row paired with the k-th such Tally row.
C4_DuplicateKeysPairOneToOne ==
  (Returned /\ WellFormedMapping) =>
    \A gi \in DOMAIN gstData :
      LET key == GstKey(gi)
          G == GstRowsWithKey(key)
          T == TallyRowsWithKey(key)
      IN /\ CountOf(exactMatches, LAMBDA e : GstKey(e.g) = key) = Min(Len(G), Len(T))
         /\ \A k \in 1..Min(Len(G), Len(T)) :
              \E i \in DOMAIN exactMatches : exactMatches[i] = [g |-> G[k], t |-> T[k]]

ExactGstRows == {exactMatches[i].g : i \in DOMAIN exactMatches}
ExactTallyRows == {exactMatches[i].t : i \in DOMAIN exactMatches}

\* C5: after reconcileData no GST row and Tally row with equal keys are both
\* outside exactMatches; two rows with equal keys, neither of them in an exact
\* match with another row, are together in one exact match.
C5_ExactMatchSymmetry ==
  Returned =>
    \A gi \in DOMAIN gstData : \A ti \in DOMAIN tallyData :
      GstKey(gi) = TallyKey(ti) =>
        /\ gi \in ExactGstRows \/ ti \in ExactTallyRows
        /\ (/\ \A i \in DOMAIN exactMatches :
                 /\ exactMatches[i].g = gi => exactMatches[i].t = ti
                 /\ exactMatches[i].t = ti => exactMatches[i].g = gi)
           => \E i \in DOMAIN exactMatches : exactMatches[i] = [g |-> gi, t |-> ti]

\* C5 witness: two GST rows and two Tally rows share a key, and a pair of them
\* is an exact match.
C5_Witness ==
  /\ Returned
  /\ Len(gstData) = 2 /\ Len(tallyData) = 2
  /\ GstKey(1) = GstKey(2) /\ TallyKey(1) = TallyKey(2) /\ GstKey(1) = TallyKey(1)
  /\ exactMatches # <<>>

\* C6: for column lists of equal length the keys of a GST row and a Tally row
\* are equal if and only if findDiscrepancies finds no discrepancy, and every
\* exact match has no discrepancy.
C6_KeyEqualIffNoDiscrepancy ==
  (pc # "start" /\ WellFormedMapping) =>
    /\ \A gi \in DOMAIN gstData : \A ti \in DOMAIN tallyData :
         GstKey(gi) = TallyKey(ti)
           <=> findDiscrepancies(gstData[gi], tallyData[ti], gstColumns, tallyColumns) = <<>>
    /\ \A i \in DOMAIN exactMatches :
         findDiscrepancies(gstData[exactMatches[i].g], tallyData[exactMatches[i].t],
                           gstColumns, tallyColumns) = <<>>

\* C7: every partial match of reconcileData has between 1 and 3 discrepancies
\* (stated for the well-formed mappings, where it already fails).
C7_PartialBudget ==
  (Returned /\ WellFormedMapping) =>
    \A i \in DOMAIN partialMatches :
      Len(partialMatches[i].discrepancies) \in 1..Budget

\* /api/reconcile-mapped-data has run its partial-matching loop without failing.
MappedLooped == pc = "looped" \/ (pc = "answered" /\ mapped.status = 200)
\* /api/reconcile-mapped-data has answered with a result.
MappedOk == pc = "answered" /\ mapped.status = 200

MappedExactGstIds == {mapped.exact[k].gst : k \in DOMAIN mapped.exact} \ {0}
MappedExactTallyIds == {mapped.exact[k].tally : k \in DOMAIN mapped.exact} \ {0}

\* The number of mapped columns in which the GST row g and the Tally row t
\* of the mapped tables differ (ids are the row numbers).
DiffCount(g, t) ==
  Cardinality({i \in 1..Len(gstColumns) : MappedDiffers(gstTable[g], tallyTable[t], i)})

\* The Tally rows consumed when the loop reaches the GST row g: those of the
\* exact matches and of the partial matches emitted for earlier GST rows.
ConsumedBefore(g) ==
  MappedExactTallyIds
    \cup {mapped.partial[k].tally :
            k \in {k \in DOMAIN mapped.partial : mapped.partial[k].gst < g}}

\* The Tally rows not yet consumed that differ from the GST row g in 1..3 columns.
Candidates(g) ==
  {t \in DOMAIN tallyTable : t \notin ConsumedBefore(g) /\ DiffCount(g, t) \in 1..Budget}

\* C8: the partial-matching loop of /api/reconcile-mapped-data emits a partial
\* match for a not-yet-matched GST row if and only if some not-yet-consumed
\* Tally row differs from it in 1 to 3 mapped columns; the Tally row chosen has
\* the fewest differing columns, the earliest one among equals; the recorded
\* discrepancies is that number of columns; GST rows are taken in row order.
C8_PartialLoopPicksBest ==
  MappedLooped =>
    /\ \A g \in DOMAIN gstTable :
         IF g \in MappedExactGstIds
           THEN CountOf(mapped.partial, LAMBDA e : e.gst = g) = 0
           ELSE /\ CountOf(mapped.partial, LAMBDA e : e.gst = g)
                     = (IF Candidates(g) = {} THEN 0 ELSE 1)
                /\ \A k \in DOMAIN mapped.partial :
                     mapped.partial[k].gst = g =>
                       LET t == mapped.partial[k].tally IN
                         /\ t \in Candidates(g)
                         /\ \A u \in Candidates(g) :
                              \/ DiffCount(g, t) < DiffCount(g, u)
                              \/ DiffCount(g, t) = DiffCount(g, u) /\ t <= u
                         /\ mapped.partial[k].discrepancies = DiffCount(g, t)
                         /\ mapped.partial[k].discrepancies \in 1..Budget
    /\ \A j, k \in DOMAIN mapped.partial :
         j < k => mapped.partial[j].gst < mapped.partial[k].gst

\* C8 witness: a partial match whose Tally row was chosen over an earlier
\* candidate with more differing columns.
C8_Witness ==
  /\ MappedLooped
  /\ \E k \in DOMAIN mapped.partial :
       \E u \in Candidates(mapped.partial[k].gst) :
         /\ u < mapped.partial[k].tally
         /\ DiffCount(mapped.partial[k].gst, u)
              > DiffCount(mapped.partial[k].gst, mapped.partial[k].tally)

\* The number of entries of the answer that hold the GST row (Tally row) id.
MappedGstEntries(id) ==
  CountOf(mapped.exact, LAMBDA e : e.gst = id)
    + CountOf(mapped.partial, LAMBDA e : e.gst = id)
    + CountOf(mapped.gstOnly, LAMBDA e : e = id)

MappedTallyEntries(id) ==
  CountOf(mapped.exact, LAMBDA e : e.tally = id)
    + CountOf(mapped.partial, LAMBDA e : e.tally = id)
    + CountOf(mapped.tallyOnly, LAMBDA e : e = id)

\* C9: in the answer of /api/reconcile-mapped-data every GST row is in exactly
\* one of details.exact, details.partial, details.gstOnly, every Tally row in
\* exactly one of details.exact, details.partial, details.tallyOnly, and
\* 2*exactMatches + 2*partialMatches + gstOnly + tallyOnly is the number of rows
\* of the two tables.
C9_MappedTotality ==
  MappedOk =>
    /\ \A r \in DOMAIN gstTable : MappedGstEntries(gstTable[r].id) = 1
    /\ \A r \in DOMAIN tallyTable : MappedTallyEntries(tallyTable[r].id) = 1
    /\ \A k \in DOMAIN mapped.exact : mapped.exact[k].gst # 0 /\ mapped.exact[k].tally # 0
    /\ 2 * Len(mapped.exact) + 2 * Len(mapped.partial)
         + Len(mapped.gstOnly) + Len(mapped.tallyOnly)
       = Len(gstTable) + Len(tallyTable)

\* C9 witness: an answer for tables in which a row occurs twice with the same
\* mapped values, with an exact match and a partial match.
C9_Witness ==
  /\ MappedOk
  /\ \/ Len(gstTable) = 2 /\ gstTable[1].cells = gstTable[2].cells
     \/ Len(tallyTable) = 2 /\ tallyTable[1].cells = tallyTable[2].cells
  /\ mapped.exact # <<>>
  /\ mapped.partial # <<>>

\* The exact-match pairs (GST row, Tally row) of the three formulations.
MemoryExactPairs == {<<exactMatches[i].g, exactMatches[i].t>> : i \in DOMAIN exactMatches}
IntersectExactPairs == {<<mapped.exact[k].gst, mapped.exact[k].tally>> : k \in DOMAIN mapped.exact}

\* C10: for the same rows and mapping, reconcileData, the INTERSECT of
\* /api/reconcile-mapped-data and the inner join of performSQLReconciliation
\* have the same exact-match pairs.
C10_FormulationsAgreeOnExact ==
  MappedOk =>
    /\ MemoryExactPairs = IntersectExactPairs
    /\ MemoryExactPairs = SqlJoinExact(gstTable, tallyTable)

(***************************************************************************)
(* The value functions applied to one raw value.                           *)
(***************************************************************************)
Chars(parts) == Join(parts, <<>>)

DayParts == {<<"0">>, <<"1">>, <<"1", "5">>, <<"3", "1">>, <<"3", "2">>,
             <<"0", "1", "5">>, <<"1", "x">>, <<"x", "x">>}
MonthParts == {<<"0">>, <<"1">>, <<"0", "2">>, <<"1", "2">>, <<"1", "3">>, <<"x", "x">>}
YearParts == {<<"1", "8", "9", "9">>, <<"1", "9", "0", "0">>, <<"2", "0", "2", "4">>,
              <<"2", "1", "0", "0">>, <<"2", "1", "0", "1">>, <<"2", "4">>,
              <<"x", "x", "x", "x">>}
Separators == {<<"-">>, <<"/">>}

\* Day, month, year and year, month, day texts.
DateTexts ==
  {Str(Chars(<<d, p, m, q, y>>)) : <<d, m, y, p, q>> \in
     DayParts \X MonthParts \X YearParts \X Separators \X Separators}
  \cup
  {Str(Chars(<<y, p, m, p, d>>)) : <<d, m, y, p>> \in
     DayParts \X MonthParts \X YearParts \X Separators}

SerialTexts ==
  {Str(Digits(n)) : n \in {29999, 30000, 30001, 36585, 36586, 45000, 45001, 49999, 50000, 50001}}
  \cup {Str(Digits(n) \o t) : n \in {30000, 45000, 50000},
                             t \in {<<".", "5">>, <<".", "0">>, <<"x">>, <<"-", "1", "-", "1">>,
                                    <<"/", "0", "1", "/", "2", "0", "2", "4">>}}

OtherValues ==
  {Null, Num(0), Num(7), Num(30000), Num(30001), Num(45000), Num(49999), Num(50000),
   Str(<<>>), Str(<<"-">>), Str(<<" ", "-", " ">>), Str(<<" ">>), Str(<<" ", " ">>),
   Str(<<"0">>), Str(<<" ", "a", " ">>), Str(<<"a", " ", "b">>), Str(<<"A">>),
   Str(<<"-", "a">>), Str(<<"-", "-">>), Str(<<" ", "4", "5", "0", "0", "0", " ">>),
   Str(<<"2", "5", "-", "2", "6", "/", "0", "0", "0", "1">>),
   Str(<<" ", "1", "5", "/", "0", "1", "/", "2", "0", "2", "4", " ">>),
   Str(<<"1", "5", "/", "0", "1">>),
   Str(<<"1", "5", "/", "0", "1", "/", "2", "0", "2", "4", "/", "1">>),
   Str(<<"2", "0", "2", "4", "-", "0", "1", "-", "0", "0", "0", "1">>)}

RawValues == DateTexts \cup SerialTexts \cup OtherValues

\* The local clock of the server against UTC, on the days of the serials and
\* on 1 January 1900: the same (UTC), an hour ahead (summer time), and behind
\* (Asia/Shanghai: UTC+8:05:43 in 1900, UTC+8 now).
ZoneGains == {0, 3600, -343}

InitValue ==
  /\ arg \in RawValues
  /\ out = NoOut
  /\ NoRuns
  /\ zoneGain \in ZoneGains
  /\ pc = "value"
  /\ gstData = <<>>
  /\ tallyData = <<>>
  /\ gstColumns = <<>>
  /\ tallyColumns = <<>>
  /\ tallyMap = <<>>
  /\ matchedGstIds = {}
  /\ matchedTallyIds = {}
  /\ exactMatches = <<>>
  /\ partialMatches = <<>>
  /\ gstMismatches = <<>>
  /\ tallyMismatches = <<>>
  /\ gstTable = <<>>
  /\ tallyTable = <<>>
  /\ intersectRows = <<>>
  /\ mapped = NoMapped
  /\ gstHeader = PlainHeader
  /\ tallyHeader = PlainHeader
  /\ gstDateColumns = {}
  /\ tallyDateColumns = {}
  /\ api = NoApi
  /\ baseline = NoBaseline

\* Everything but the raw value, the result and the position.
nonValueVars == <<gstData, tallyData, gstColumns, tallyColumns, gstHeader, tallyHeader, zoneGain,
                  memVars, dbVars, api, baseline, runVars>>

Applied(fn, value) == [set |-> TRUE, fn |-> fn, value |-> value, prev |-> arg]

CallNormalizeValueForDB ==
  /\ pc = "value"
  /\ out' = Applied("normalizeValueForDB", normalizeValueForDB(arg))
  /\ pc' = "normalized"
  /\ UNCHANGED <<arg, nonValueVars>>

CallNormalizeValue ==
  /\ pc = "value"
  /\ out' = Applied("normalizeValue", normalizeValue(arg))
  /\ pc' = "normalized"
  /\ UNCHANGED <<arg, nonValueVars>>

\* The same normalizer applied to its own result.
CallNormalizeAgain ==
  /\ pc = "normalized"
  /\ out' = [out EXCEPT !.prev = out.value,
                        !.value = IF out.fn = "normalizeValue"
                                    THEN normalizeValue(out.value)
                                    ELSE normalizeValueForDB(out.value)]
  /\ pc' = "renormalized"
  /\ UNCHANGED <<arg, nonValueVars>>

CallIsDateValue ==
  /\ pc = "value"
  /\ out' = Applied("isDateValue", Bool(isDateValue(arg)))
  /\ pc' = "tested"
  /\ UNCHANGED <<arg, nonValueVars>>

CallConvertToStandardDate ==
  /\ pc = "value"
  /\ out' = Applied("convertToStandardDate", convertToStandardDate(arg))
  /\ pc' = "converted"
  /\ UNCHANGED <<arg, nonValueVars>>

NextValue ==
  \/ CallNormalizeValueForDB
  \/ CallNormalizeValue
  \/ CallNormalizeAgain
  \/ CallIsDateValue
  \/ CallConvertToStandardDate

SpecValue == InitValue /\ [][NextValue]_vars

(***************************************************************************)
(* Properties of the value functions.                                      *)
(***************************************************************************)
Spaces(n) == [i \in 1..n |-> " "]

\* text is inner with spaces, and nothing else, before and after it.
PaddingOf(text, inner) ==
  \E i, j \in 0..Len(text) : text = Spaces(i) \o inner \o Spaces(j)

\* null, undefined, '' and '-' alone between spaces.
NeutralRaw(v) ==
  \/ v.k = "nul"
  \/ v.k = "str" /\ (v.s = <<>> \/ PaddingOf(v.s, <<"-">>))

\* C15: normalizeValueForDB and normalizeValue return the number 0 for null,
\* undefined, '' and '-' (also between spaces), and for every other value its
\* string form without the spaces before and after it, nothing else changed.
C15_NormalizeNeutralOrTrimmed ==
  pc = "normalized" =>
    IF NeutralRaw(out.prev) THEN out.value = Num(0)
    ELSE /\ out.value.k = "str"
         /\ PaddingOf(JsString(out.prev), out.value.s)
         /\ out.value.s # <<>> => ~IsSpace(out.value.s[1]) /\ ~IsSpace(out.value.s[Len(out.value.s)])

\* '-' between spaces has become 0, and 25-26/0001 has kept its '-' and '/'.
C15_Witness ==
  /\ pc = "normalized"
  /\ \/ out.prev = Str(<<" ", "-", " ">>) /\ out.value = Num(0)
     \/ /\ out.prev = Str(<<"2", "5", "-", "2", "6", "/", "0", "0", "0", "1">>)
        /\ out.value = out.prev

\* C16: a normalizer applied to its own result returns that result again,
\* the same value of the same type.
C16_NormalizeIdempotent ==
  pc = "renormalized" => out.value = out.prev

\* A whole decimal numeral: digits, then possibly a point and digits.
IsNumeral(s) ==
  \E n \in 1..Len(s) :
    /\ AllDigits(SubSeq(s, 1, n))
    /\ n = Len(s) \/ (s[n + 1] = "." /\ AllDigits(SubSeq(s, n + 2, Len(s))))

\* The integer part and the fraction digits of a whole decimal numeral.
NumeralInt(s) == NatOf(SubSeq(s, 1, DigitsPrefixLen(s)))
NumeralFrac(s) == SubSeq(s, DigitsPrefixLen(s) + 2, Len(s))

\* A numeric value strictly between 30000 and 50000.
StatedSerial(v) ==
  LET s == Trim(JsString(v)) IN
  /\ v.k \in {"num", "str"}
  /\ IsNumeral(s)
  /\ NumeralInt(s) < 50000
  /\ NumeralInt(s) > 30000
     \/ (NumeralInt(s) = 30000 /\ \E i \in DOMAIN NumeralFrac(s) : NumeralFrac(s)[i] # "0")

StatedCalendar(year, month, day) ==
  /\ NatOf(month) \in 1..12
  /\ NatOf(day) \in 1..31
  /\ NatOf(year) \in 1900..2100

\* A[-/]B[-/]C, a 4-digit first or last part being the year.
StatedPattern(v) ==
  LET parts == Split(Trim(JsString(v))) IN
  /\ v.k = "str"
  /\ Len(parts) = 3
  /\ \A i \in 1..3 : parts[i] # <<>> /\ AllDigits(parts[i])
  /\ Len(parts[1]) <= 4 /\ Len(parts[2]) <= 2 /\ Len(parts[3]) <= 4
  /\ IF Len(parts[1]) = 4 THEN StatedCalendar(parts[1], parts[2], parts[3])
     ELSE Len(parts[3]) = 4 /\ StatedCalendar(parts[3], parts[2], parts[1])

\* C18: isDateValue(v) is true exactly when v is a numeric value strictly
\* between 30000 and 50000, or v is A[-/]B[-/]C with a 4-digit year first or
\* last, month in 1..12, day in 1..31 and year in 1900..2100.
C18_IsDateValueExactly ==
  pc = "tested" => (out.value = Bool(TRUE) <=> (StatedSerial(out.prev) \/ StatedPattern(out.prev)))

\* C20: convertToStandardDate returns null or a string of the form YYYY-MM-DD.
C20_ConvertNullOrIsoDate ==
  pc = "converted" => out.value = Null \/ (out.value.k = "str" /\ IsIsoDate(out.value.s))

\* An integer strictly between 30000 and 50000, as a number or as its digits.
IntegerSerial(v) ==
  \/ v.k = "num" /\ v.n > 30000 /\ v.n < 50000
  \/ v.k = "str" /\ Len(v.s) = 5 /\ AllDigits(v.s) /\ NatOf(v.s) > 30000 /\ NatOf(v.s) < 50000

SerialOf(v) == IF v.k = "num" THEN v.n ELSE NatOf(v.s)

\* The calendar date `days` days after 1900-01-01, found by its position in
\* the calendar: the year, then the month, then the day.
StatedYear(days) ==
  CHOOSE y \in 1900..2040 : DaysToYear(y) <= days /\ days < DaysToYear(y + 1)
StatedMonth(days) ==
  CHOOSE m \in 1..12 :
    /\ DaysToYear(StatedYear(days)) + DaysToMonth(StatedYear(days), m) <= days
    /\ days < DaysToYear(StatedYear(days)) + DaysToMonth(StatedYear(days), m)
                + MonthLen(StatedYear(days), m)
StatedDay(days) ==
  days - DaysToYear(StatedYear(days)) - DaysToMonth(StatedYear(days), StatedMonth(days)) + 1

\* YYYY-MM-DD of that date, month and day with two digits.
StatedDateText(days) ==
  Digits(StatedYear(days))
    \o <<"-">> \o (IF StatedMonth(days) < 10 THEN <<"0">> ELSE <<>>) \o Digits(StatedMonth(days))
    \o <<"-">> \o (IF StatedDay(days) < 10 THEN <<"0">> ELSE <<>>) \o Digits(StatedDay(days))

\* C26: for every integer serial s with 30000 < s < 50000 the conversion
\* gives the calendar date (s - 2) days after 1900-01-01 as YYYY-MM-DD with
\* two-digit month and day, so that later serials give later dates, and the
\* serial 45000 gives a date of 2023.
C26_SerialIsDaysAfterEpoch ==
  (pc = "converted" /\ IntegerSerial(out.prev)) =>
    /\ out.value = Str(StatedDateText(SerialOf(out.prev) - 2))
    /\ SerialOf(out.prev) = 45000 => SubSeq(out.value.s, 1, 4) = <<"2", "0", "2", "3">>

\* C27: every value that isDateValue accepts is converted to a string, not
\* null, of exactly ten characters: a 4-digit year, a 2-digit month and a
\* 2-digit day, also for parts of one digit or with leading zeros
\* (015/01/2024, 2024-01-0001).
C27_AcceptedConvertsToTenChars ==
  (pc = "converted" /\ isDateValue(out.prev)) =>
    out.value.k = "str" /\ IsIsoDate(out.value.s)

(***************************************************************************)
(* src/index.js: POST /api/reconcile.  The handler calls reconcileData     *)
(* with the column lists of the request, stores the result, then stores    *)
(* the mapped rows and runs the SQL reconciliation.                        *)
(***************************************************************************)
\* Largest number of mapping pairs of a /api/reconcile request.
MaxPairs == 2

ZeroText == Str(<<"0">>)

ReconcileGstPool == {RowAll(a), RowOne(1, Num(0), a)}

ReconcileTallyPool == {RowAll(a), RowOne(1, ZeroText, a)}

\* Column lists of n names, each the empty name or the first column.
ColumnLists(n) == [1..n -> {EmptyCol, 1}]

InitReconcile ==
  /\ gstData \in SeqsUpTo(ReconcileGstPool, MaxRows)
  /\ tallyData \in SeqsUpTo(ReconcileTallyPool, MaxRows)
  /\ \E n \in 1..MaxPairs : gstColumns \in ColumnLists(n) /\ tallyColumns \in ColumnLists(n)
  /\ pc = "start"
  /\ tallyMap = <<>>
  /\ matchedGstIds = {}
  /\ matchedTallyIds = {}
  /\ exactMatches = <<>>
  /\ partialMatches = <<>>
  /\ gstMismatches = <<>>
  /\ tallyMismatches = <<>>
  /\ gstTable = <<>>
  /\ tallyTable = <<>>
  /\ intersectRows = <<>>
  /\ mapped = NoMapped
  /\ gstHeader = PlainHeader
  /\ tallyHeader = PlainHeader
  /\ gstDateColumns = {}
  /\ tallyDateColumns = {}
  /\ api = NoApi
  /\ baseline = NoBaseline
  /\ arg = Null
  /\ out = NoOut
  /\ NoRuns
  /\ zoneGain = 0

\* The four lists reconcileData returns.
Results ==
  [exactMatches |-> exactMatches, partialMatches |-> partialMatches,
   tallyMismatches |-> tallyMismatches, gstMismatches |-> gstMismatches]

\* storeResults: one row of reconciliation_results.
StoreResults ==
  /\ pc = "returned"
  /\ api' = [api EXCEPT !.results = Append(@, Results)]
  /\ pc' = "resultsStored"
  /\ UNCHANGED <<inputVars, memVars, dbVars, baseline, arg, out, runVars>>

\* The summary of the answer, from the lengths of four lists.
Summary(exact, partial, tallyMis, gstMis) ==
  [totalGstRecords |-> Len(gstData), totalTallyRecords |-> Len(tallyData),
   exactMatches |-> exact, partialMatches |-> partial,
   tallyMismatches |-> tallyMis, gstMismatches |-> gstMis]

\* catch (mappingError): success, with the counts of the in-memory result.
AnswerFromMemory ==
  [api EXCEPT !.status = 200, !.success = TRUE,
              !.summary = Summary(Len(exactMatches), Len(partialMatches),
                                  Len(tallyMismatches), Len(gstMismatches))]

\* storeMappedData: throws when no pair has both sides, else creates the two
\* feature tables, inserts the normalized rows and the column_mappings row.
StoreMappedData ==
  /\ pc = "resultsStored"
  /\ IF Len(ValidMappings) = 0
       THEN /\ api' = AnswerFromMemory
            /\ pc' = "responded"
            /\ UNCHANGED <<gstTable, tallyTable>>
       ELSE /\ gstTable' = [i \in 1..Len(gstData) |-> StoredRow(gstData[i], gstColumns, i)]
            /\ tallyTable' = [i \in 1..Len(tallyData) |-> StoredRow(tallyData[i], tallyColumns, i)]
            /\ api' = [api EXCEPT !.mappings = Append(@, [gst_columns |-> gstColumns,
                                                          tally_columns |-> tallyColumns])]
            /\ pc' = "featuresStored"
  /\ UNCHANGED <<inputVars, memVars, dateVars, intersectRows, mapped, baseline, arg, out, runVars>>

\* The numbers of the feature columns storeMappedData created (idx + 1).
CreatedFeatures == {ValidMappings[k] : k \in DOMAIN ValidMappings}

\* The numbers of the feature columns the four queries name.
ReferencedFeatures == (1..Len(ValidMappings)) \cup {1, 2}

\* SELECT feature1, ... FROM gst g JOIN tally t: a name of the select list
\* that is a column of both tables is ambiguous, and a name that is a column
\* of neither does not exist; PostgreSQL rejects the query in both cases.
QueryFails ==
  \/ \E f \in ReferencedFeatures : f \notin CreatedFeatures
  \/ \E f \in 1..Len(ValidMappings) : f \in CreatedFeatures

\* g.feature1 = t.feature1 AND g.feature2 = t.feature2
SqlJoinFirstTwo(g, t) ==
  {<<i, j>> \in (DOMAIN g) \X (DOMAIN t) :
     \A k \in {1, 2} : SqlEq(g[i].cells[k], t[j].cells[k])}

\* NOT (g.feature1 = t.feature1 AND ...): true when some pair is unequal.
SqlSomeUnequal(x, y) ==
  \E k \in DOMAIN x.cells :
    x.cells[k].k # "nul" /\ y.cells[k].k # "nul" /\ x.cells[k] # y.cells[k]

\* The counts of the four queries.
SqlSummary ==
  LET joined == SqlJoinFirstTwo(gstTable, tallyTable) IN
  Summary(Cardinality(SqlJoinExact(gstTable, tallyTable)),
          Cardinality({p \in joined : SqlSomeUnequal(gstTable[p[1]], tallyTable[p[2]])}),
          Cardinality({j \in DOMAIN tallyTable : \A p \in joined : p[2] # j}),
          Cardinality({i \in DOMAIN gstTable : \A p \in joined : p[1] # i}))

\* performSQLReconciliation and the answer.
PerformSQLReconciliation ==
  /\ pc = "featuresStored"
  /\ api' = IF QueryFails THEN AnswerFromMemory
            ELSE [api EXCEPT !.status = 200, !.success = TRUE, !.summary = SqlSummary]
  /\ pc' = "responded"
  /\ UNCHANGED <<inputVars, memVars, dbVars, baseline, arg, out, runVars>>

NextReconcile ==
  \/ BuildTallyMap
  \/ ExactPass
  \/ PartialPass
  \/ CollectUnmatched
  \/ StoreResults
  \/ StoreMappedData
  \/ PerformSQLReconciliation

SpecReconcile == InitReconcile /\ [][NextReconcile]_vars

\* /api/reconcile has answered.
Responded == pc = "responded"

\* Every pair of the mapping has an empty side.
NoValidPair ==
  \A i \in DOMAIN gstColumns : gstColumns[i] = EmptyCol \/ tallyColumns[i] = EmptyCol

\* C11: a /api/reconcile request whose mapping pairs all have an empty side
\* produces no exact and no partial match, stores no reconciliation result
\* and does not answer success.
C11_EmptyMappingFails ==
  (Responded /\ NoValidPair) =>
    /\ exactMatches = <<>>
    /\ partialMatches = <<>>
    /\ api.results = <<>>
    /\ ~api.success

\* C29: for every column mapping storeMappedData accepts, the feature columns
\* the queries of performSQLReconciliation name (feature1..featureN for the
\* N valid pairs, and feature1 and feature2 as identifiers) are exactly the
\* feature columns storeMappedData created, also when an empty-sided pair
\* comes before a valid pair and when there is a single valid pair.
C29_ReferencedFeaturesAreCreated ==
  (Responded /\ Len(ValidMappings) > 0) => ReferencedFeatures = CreatedFeatures

(***************************************************************************)
(* reconcileData called twice on the same rows: with the column lists of   *)
(* the request, as /api/reconcile passes them, then with the pairs that    *)
(* have both sides.                                                        *)
(***************************************************************************)
\* The columns of the pairs that have both sides, in order.
Filtered(columns) == [k \in 1..Len(ValidMappings) |-> columns[ValidMappings[k]]]

ReconcileFiltered ==
  /\ pc = "returned"
  /\ ~baseline.set
  /\ baseline' = [set |-> TRUE, results |-> Results,
                  gstColumns |-> gstColumns, tallyColumns |-> tallyColumns]
  /\ gstColumns' = Filtered(gstColumns)
  /\ tallyColumns' = Filtered(tallyColumns)
  /\ tallyMap' = <<>>
  /\ matchedGstIds' = {}
  /\ matchedTallyIds' = {}
  /\ exactMatches' = <<>>
  /\ partialMatches' = <<>>
  /\ gstMismatches' = <<>>
  /\ tallyMismatches' = <<>>
  /\ pc' = "start"
  /\ UNCHANGED <<gstData, tallyData, gstHeader, tallyHeader, zoneGain, dbVars, api, arg, out, runVars>>

NextFilter ==
  \/ BuildTallyMap
  \/ ExactPass
  \/ PartialPass
  \/ CollectUnmatched
  \/ ReconcileFiltered

SpecFilter == InitReconcile /\ [][NextFilter]_vars

\* The discrepancies of a partial match, as the column pairs they name.
DiscrepancyNames(entry, gstCols, tallyCols) ==
  [k \in DOMAIN entry.discrepancies |->
     <<gstCols[entry.discrepancies[k]], tallyCols[entry.discrepancies[k]]>>]

\* The rows and the discrepancies of a list of partial matches.
PartialNames(partial, gstCols, tallyCols) ==
  [k \in DOMAIN partial |->
     [g |-> partial[k].g, t |-> partial[k].t,
      names |-> DiscrepancyNames(partial[k], gstCols, tallyCols)]]

\* C12: the pairs with an empty side change nothing: reconcileData returns,
\* for the column lists of the request, the exact matches, partial matches,
\* unmatched rows and discrepancies it returns for the pairs with both sides
\* (stated for the requests that have such a pair, where it already fails).
C12_EmptyPairsChangeNothing ==
  (pc = "returned" /\ baseline.set /\ Len(gstColumns) >= 1) =>
    /\ baseline.results.exactMatches = exactMatches
    /\ baseline.results.gstMismatches = gstMismatches
    /\ baseline.results.tallyMismatches = tallyMismatches
    /\ PartialNames(baseline.results.partialMatches, baseline.gstColumns, baseline.tallyColumns)
         = PartialNames(partialMatches, gstColumns, tallyColumns)

\* null, undefined (an absent cell), '' and the number 0.
ZeroLike(v) == ~Truthy(v)

\* One cell is missing or zero and the other is the text "0".
ZeroAgainstText(x, y) == (ZeroLike(x) /\ y = ZeroText) \/ (x = ZeroText /\ ZeroLike(y))

\* No column name of the mapping is empty.
NamedMapping ==
  /\ \A i \in DOMAIN gstColumns : gstColumns[i] # EmptyCol
  /\ \A i \in DOMAIN tallyColumns : tallyColumns[i] # EmptyCol

\* C17: a record whose mapped cell is absent, null, empty or the number 0 is
\* field-equal and key-equal to a record whose mapped cell is the text "0":
\* reconcileData reports no discrepancy for such a pair of cells, and rows
\* that differ in such cells only have the same key.
C17_MissingCellEqualsZeroText ==
  (Returned /\ NamedMapping) =>
    \A gi \in DOMAIN gstData, ti \in DOMAIN tallyData :
      /\ \A i \in DOMAIN gstColumns :
           ZeroAgainstText(Field(gstData[gi], gstColumns[i]), Field(tallyData[ti], tallyColumns[i]))
             => FieldKey(gstData[gi], gstColumns[i]) = FieldKey(tallyData[ti], tallyColumns[i])
      /\ (\A i \in DOMAIN gstColumns :
            \/ ZeroAgainstText(Field(gstData[gi], gstColumns[i]), Field(tallyData[ti], tallyColumns[i]))
            \/ FieldKey(gstData[gi], gstColumns[i]) = FieldKey(tallyData[ti], tallyColumns[i]))
           => /\ createKey(gstData[gi], gstColumns) = createKey(tallyData[ti], tallyColumns)
              /\ findDiscrepancies(gstData[gi], tallyData[ti], gstColumns, tallyColumns) = <<>>

(***************************************************************************)
(* POST /api/save-mapping, then POST /api/reconcile-mapped-data, on sheets *)
(* with an invoice column and amount columns.                              *)
(***************************************************************************)
InvoiceNo == <<"I", "n", "v", "o", "i", "c", "e", " ", "N", "o">>
Amount == <<"A", "m", "o", "u", "n", "t">>
TaxableValue == <<"T", "a", "x", "a", "b", "l", "e", " ", "V", "a", "l", "u", "e">>
Igst == <<"I", "G", "S", "T">>
Inv == <<"I", "n", "v">>
Amt == <<"A", "m", "t">>
Tax == <<"T", "a", "x">>

\* A header naming the first three columns; the others keep their plain names.
HeaderOf(n1, n2, n3) ==
  [c \in 1..MaxCols |-> IF c = 1 THEN n1 ELSE IF c = 2 THEN n2 ELSE IF c = 3 THEN n3
                        ELSE PlainHeader[c]]

\* A row with the given texts in the first three columns.
AmountRow(inv, x, y) ==
  [c \in 1..MaxCols |-> IF c = 1 THEN Str(inv) ELSE IF c = 2 THEN Str(x) ELSE IF c = 3 THEN Str(y)
                        ELSE a]

INV1 == <<"I", "N", "V", "1">>

SeverityGstPool ==
  { AmountRow(INV1, <<"1", "0", "0">>, <<"1", "0", "0">>),
    AmountRow(INV1, <<"9", "9", ".", "7", "5">>, <<"x">>),
    AmountRow(INV1, <<"1", "0", "0">>, <<"-", "-", "5">>) }

SeverityTallyPool ==
  { AmountRow(INV1, <<"1", "0", "0", ".", "5", "0">>, <<"1", "0", "0">>),
    AmountRow(INV1, <<"1", "5", "0">>, <<"1", "0", "0">>),
    AmountRow(INV1, <<"1", "0", "1">>, <<"1", "0", "0", ".", "5", "0">>),
    AmountRow(INV1, <<"R", "s", " ", "1", "0", "0", ".", "2", "5", "-">>, <<"9", "9", ".", "5", "0">>) }

InitSeverity ==
  /\ gstData \in SeqsUpTo(SeverityGstPool, MaxRows)
  /\ tallyData \in SeqsUpTo(SeverityTallyPool, MaxRows)
  /\ gstColumns \in {Cols(2), Cols(3)}
  /\ tallyColumns = gstColumns
  /\ gstHeader \in {HeaderOf(InvoiceNo, n, Igst) : n \in {Amount, TaxableValue}}
  /\ tallyHeader = HeaderOf(Inv, Amt, Tax)
  /\ pc = "returned"
  /\ tallyMap = <<>>
  /\ matchedGstIds = {}
  /\ matchedTallyIds = {}
  /\ exactMatches = <<>>
  /\ partialMatches = <<>>
  /\ gstMismatches = <<>>
  /\ tallyMismatches = <<>>
  /\ gstTable = <<>>
  /\ tallyTable = <<>>
  /\ intersectRows = <<>>
  /\ mapped = NoMapped
  /\ gstDateColumns = {}
  /\ tallyDateColumns = {}
  /\ api = NoApi
  /\ baseline = NoBaseline
  /\ arg = Null
  /\ out = NoOut
  /\ NoRuns
  /\ zoneGain = 0

NextMapped ==
  \/ SaveMapping
  \/ MappedIntersect
  \/ MappedFormatExact
  \/ MappedPartialLoop
  \/ MappedRespond

SpecSeverity == InitSeverity /\ [][NextMapped]_vars

\* The sanitized name of the GST column of the mapping pair i.
GstColumnName(i) == sanitizeColumnName(HeaderName(gstHeader, gstColumns[i]))

\* |gstNum - tallyNum| of the pair i of a partial match, in hundredths.
MoneyDiff(entry, i) ==
  Abs(MoneyOf(JsCell(Field(RowById(gstTable, entry.gst).cells, i)))
      - MoneyOf(JsCell(Field(RowById(tallyTable, entry.tally).cells, i))))

\* The discrepancy columns of a partial match whose name has a tax fragment.
MonetaryColumns(entry) ==
  {i \in 1..Len(gstColumns) :
     /\ \E k \in DOMAIN entry.discrepancyColumns : entry.discrepancyColumns[k] = i
     /\ IsTaxColumn(GstColumnName(i))}

\* C13: for every partial match of /api/reconcile-mapped-data, maxDiscrepancy
\* is the largest |gstNum - tallyNum| over the discrepancy columns whose name
\* has a tax fragment (0 when there is none), and isMinor is true exactly
\* when that maximum is above 0 and every such difference is below 1.
C13_SeverityOfPartialMatch ==
  MappedOk =>
    \A k \in DOMAIN mapped.partial :
      LET entry == mapped.partial[k]
          diffs == {MoneyDiff(entry, i) : i \in MonetaryColumns(entry)}
      IN /\ \A d \in diffs : d <= entry.maxDiscrepancy
         /\ entry.maxDiscrepancy \in diffs \cup {0}
         /\ diffs = {} => entry.maxDiscrepancy = 0
         /\ entry.isMinor <=> (entry.maxDiscrepancy > 0 /\ \A d \in diffs : d < Unit)

\* A partial match whose tax column differs by less than 1 is minor, and one
\* whose tax column differs by exactly 1 is not.
C13_Witness ==
  /\ MappedOk
  /\ \E k \in DOMAIN mapped.partial :
       /\ mapped.partial[k].isMinor
       /\ mapped.partial[k].maxDiscrepancy \in 1..(Unit - 1)
  /\ \E k \in DOMAIN mapped.partial :
       /\ ~mapped.partial[k].isMinor
       /\ mapped.partial[k].maxDiscrepancy = Unit

\* Scenario B: one GST row {Invoice No: INV1, amount column: 100}, one Tally
\* row {Inv: INV1, Amt: amt}, the mapping [(Invoice No, Inv), (amount column,
\* Amt)], answered by /api/reconcile-mapped-data.
ScenarioB(amountName, amt) ==
  /\ MappedOk
  /\ gstHeader = HeaderOf(InvoiceNo, amountName, Igst)
  /\ gstColumns = Cols(2)
  /\ Len(gstData) = 1 /\ Len(tallyData) = 1
  /\ gstData[1][1] = Str(INV1) /\ gstData[1][2] = Str(<<"1", "0", "0">>)
  /\ tallyData[1][1] = Str(INV1) /\ tallyData[1][2] = Str(amt)

\* Exactly one partial match, with one discrepancy and the given severity.
OnePartial(maxDiscrepancy, isMinor) ==
  /\ Len(mapped.partial) = 1
  /\ mapped.exact = <<>>
  /\ mapped.partial[1].discrepancies = 1
  /\ mapped.partial[1].maxDiscrepancy = maxDiscrepancy
  /\ mapped.partial[1].isMinor = isMinor

\* C14 as stated: with the GST column named Amount, scenario B gives one
\* partial match with maxDiscrepancy 0.50 and isMinor true, and with Amt 150
\* maxDiscrepancy 50 and isMinor false.
C14_ScenarioB_AsStated ==
  /\ ScenarioB(Amount, <<"1", "0", "0", ".", "5", "0">>) => OnePartial(50, TRUE)
  /\ ScenarioB(Amount, <<"1", "5", "0">>) => OnePartial(50 * Unit, FALSE)

\* C14 amended: scenario B gives one partial match with one discrepancy; the
\* name Amount holds no tax fragment, so maxDiscrepancy is 0 and isMinor is
\* false for Amt 100.50 and for Amt 150; with the GST column named Taxable
\* Value, maxDiscrepancy is 0.50 and isMinor true, and for Amt 150 they are
\* 50 and false.
C14_ScenarioB ==
  /\ ScenarioB(Amount, <<"1", "0", "0", ".", "5", "0">>) => OnePartial(0, FALSE)
  /\ ScenarioB(Amount, <<"1", "5", "0">>) => OnePartial(0, FALSE)
  /\ ScenarioB(TaxableValue, <<"1", "0", "0", ".", "5", "0">>) => OnePartial(50, TRUE)
  /\ ScenarioB(TaxableValue, <<"1", "5", "0">>) => OnePartial(50 * Unit, FALSE)

\* Scenario B with the column named Amount has been answered.
C14_Witness == ScenarioB(Amount, <<"1", "0", "0", ".", "5", "0">>) /\ Len(mapped.partial) = 1

(***************************************************************************)
(* POST /api/save-mapping, then POST /api/reconcile-mapped-data, on sheets *)
(* whose first column may be the invoice date.                             *)
(***************************************************************************)
\* Largest number of rows of a sheet with a date column.
MaxSampleRows == 11

InvoiceDate == <<"I", "n", "v", "o", "i", "c", "e", " ", "D", "a", "t", "e">>
InvoiceDatePadded == <<" ", "i", "n", "v", "o", "i", "c", "e", " ", "d", "a", "t", "e", " ">>
InvoiceDates == <<"I", "n", "v", "o", "i", "c", "e", " ", "D", "a", "t", "e", "s">>

\* An empty cell, as the file parser leaves it.
EmptyCell == Num(0)

\* A date, a text, and a date-like text that is no day of the calendar.
DateCell == Str(<<"1", "5", "/", "0", "1", "/", "2", "0", "2", "4">>)
TextCell == Str(<<"x">>)
NoDayCell == Str(<<"3", "1", "/", "0", "2", "/", "2", "0", "2", "4">>)

\* A sheet of n rows, empty in the first column but for the rows p and q.
DateSheet(n, p, v, q, w) ==
  [i \in 1..n |-> RowOne(1, IF i = p THEN v ELSE IF i = q THEN w ELSE EmptyCell, a)]

DateSheets ==
  {DateSheet(n, p, v, q, w) :
     n \in {0, 1} \cup ((SampleSize - 1)..MaxSampleRows),
     p \in 1..MaxSampleRows, q \in 1..MaxSampleRows,
     v \in {EmptyCell, DateCell, TextCell, NoDayCell}, w \in {EmptyCell, DateCell, TextCell}}

InitDateColumn ==
  /\ gstData \in DateSheets
  /\ tallyData = <<RowOne(1, Str(<<"2", "0", "2", "4", "-", "0", "1", "-", "1", "5">>), a)>>
  /\ gstColumns = Cols(1)
  /\ tallyColumns = Cols(1)
  /\ gstHeader \in {HeaderOf(n, Amount, Igst) : n \in {InvoiceDate, InvoiceDatePadded, InvoiceDates}}
  /\ tallyHeader \in {HeaderOf(n, Amt, Tax) : n \in {InvoiceDate, Inv}}
  /\ pc = "returned"
  /\ tallyMap = <<>>
  /\ matchedGstIds = {}
  /\ matchedTallyIds = {}
  /\ exactMatches = <<>>
  /\ partialMatches = <<>>
  /\ gstMismatches = <<>>
  /\ tallyMismatches = <<>>
  /\ gstTable = <<>>
  /\ tallyTable = <<>>
  /\ intersectRows = <<>>
  /\ mapped = NoMapped
  /\ gstDateColumns = {}
  /\ tallyDateColumns = {}
  /\ api = NoApi
  /\ baseline = NoBaseline
  /\ arg = Null
  /\ out = NoOut
  /\ NoRuns
  /\ zoneGain = 0

SpecDateColumn == InitDateColumn /\ [][NextMapped]_vars

\* /api/save-mapping has created its tables.
Saved == pc \notin {"returned", "rejected"}

\* A value that is not empty: not null, not 0, not blank.
StatedNonEmpty(v) ==
  /\ v # Null
  /\ v # Num(0)
  /\ v.k = "str" => \E i \in DOMAIN v.s : v.s[i] # " "

\* The name is 'invoice date' in any case and between any spaces, every
\* non-empty value of the first 10 rows is date-like, and one of them is.
StatedDateColumn(data, name, col) ==
  /\ PaddingOf(ToLowerCase(name), InvoiceDateName)
  /\ \A i \in DOMAIN data :
       (i <= 10 /\ StatedNonEmpty(Field(data[i], col))) => isDateValue(Field(data[i], col))
  /\ \E i \in DOMAIN data : i <= 10 /\ isDateValue(Field(data[i], col))

\* C19: /api/save-mapping classifies a mapped column as a date column if and
\* only if its name, lower-cased and trimmed, is 'invoice date', every
\* non-empty value among the first 10 rows is date-like and at least one of
\* them is; the rows after the tenth never change the classification.
C19_DateColumnClassification ==
  Saved =>
    \A k \in DOMAIN ValidMappings :
      /\ gstColumns[ValidMappings[k]] \in gstDateColumns
           <=> StatedDateColumn(gstData, HeaderName(gstHeader, gstColumns[ValidMappings[k]]),
                                gstColumns[ValidMappings[k]])
      /\ tallyColumns[ValidMappings[k]] \in tallyDateColumns
           <=> StatedDateColumn(tallyData, HeaderName(tallyHeader, tallyColumns[ValidMappings[k]]),
                                tallyColumns[ValidMappings[k]])

\* A column of eleven rows is a date column although its eleventh value is
\* a text, and a padded lower-case name is taken as well.
C19_Witness ==
  /\ Saved
  /\ gstDateColumns = {1}
  /\ Len(gstData) = 11
  /\ gstData[11][1] = TextCell
  /\ gstHeader[1] = InvoiceDatePadded

\* C28: for every valid mapping pair, /api/save-mapping converts the GST
\* column as a date if and only if it converts the Tally column of the same
\* pair as a date, so both sides of a pair are stored the same way.
C28_PairSidesStoredAlike ==
  Saved =>
    \A k \in DOMAIN ValidMappings :
      gstColumns[ValidMappings[k]] \in gstDateColumns
        <=> tallyColumns[ValidMappings[k]] \in tallyDateColumns

\* C25: every partial match emitted by reconcileData agrees on at least one
\* compared column pair: its GST and Tally records have equal field keys in
\* one of the pairs, also when the two column lists have different lengths.
C25_PartialAgreesOnSomePair ==
  \A k \in DOMAIN partialMatches :
    \E i \in 1..Min(Len(gstColumns), Len(tallyColumns)) :
      FieldKey(gstData[partialMatches[k].g], gstColumns[i])
        = FieldKey(tallyData[partialMatches[k].t], tallyColumns[i])

\* The mapped pair i of a partial match of /api/reconcile-mapped-data differs
\* for the key builder, on the sheet rows the stored rows were made of.
KeysDiffer(entry, i) ==
  FieldKey(gstData[entry.gst], gstColumns[ValidMappings[i]])
    # FieldKey(tallyData[entry.tally], tallyColumns[ValidMappings[i]])

\* C22: the discrepancy counting of /api/reconcile-mapped-data uses the field
\* equality of the key builder (trimmed and lower-cased): a mapped pair of a
\* partial match is counted as a discrepancy if and only if createKey and
\* findDiscrepancies take its two values as different, so values that differ
\* only in letter case are not counted.
C22_MappedCountsLikeKeyBuilder ==
  MappedLooped =>
    \A k \in DOMAIN mapped.partial :
      \A i \in DOMAIN ValidMappings :
        (\E j \in DOMAIN mapped.partial[k].discrepancyColumns :
           mapped.partial[k].discrepancyColumns[j] = i)
          <=> KeysDiffer(mapped.partial[k], i)

(***************************************************************************)
(* POST /api/save-mapping, then POST /api/reconcile-mapped-data, on sheets *)
(* whose first column holds timestamps and dates as text.                  *)
(***************************************************************************)
Stamp15 == <<"2", "0", "2", "4", "-", "0", "1", "-", "1", "5", "T", "1">>
Stamp15Late == <<"2", "0", "2", "4", "-", "0", "1", "-", "1", "5", "T", "2">>
Stamp16 == <<"2", "0", "2", "4", "-", "0", "1", "-", "1", "6", "T", "1">>
Day15 == <<"2", "0", "2", "4", "-", "0", "1", "-", "1", "5">>
\* Not of the form YYYY-MM-DDT: a one-digit month.
ShortStamp == <<"2", "0", "2", "4", "-", "1", "-", "1", "5", "T", "1">>

\* A row with the text s in the first column and v in the second.
StampRow(s, v) == [c \in 1..MaxCols |-> IF c = 1 THEN Str(s) ELSE IF c = 2 THEN v ELSE a]

StampGstPool == {StampRow(Stamp15, a), StampRow(Stamp16, a), StampRow(Day15, b)}

StampTallyPool ==
  {StampRow(Day15, a), StampRow(Stamp15Late, a), StampRow(Stamp15Late, b), StampRow(ShortStamp, a)}

InitTimestamp ==
  /\ gstData \in SeqsUpTo(StampGstPool, MaxRows)
  /\ tallyData \in SeqsUpTo(StampTallyPool, MaxRows)
  /\ gstColumns \in {Cols(1), Cols(2)}
  /\ tallyColumns = gstColumns
  /\ gstHeader \in {PlainHeader, HeaderOf(InvoiceDate, Amount, Igst)}
  /\ tallyHeader = gstHeader
  /\ pc = "returned"
  /\ tallyMap = <<>>
  /\ matchedGstIds = {}
  /\ matchedTallyIds = {}
  /\ exactMatches = <<>>
  /\ partialMatches = <<>>
  /\ gstMismatches = <<>>
  /\ tallyMismatches = <<>>
  /\ gstTable = <<>>
  /\ tallyTable = <<>>
  /\ intersectRows = <<>>
  /\ mapped = NoMapped
  /\ gstDateColumns = {}
  /\ tallyDateColumns = {}
  /\ api = NoApi
  /\ baseline = NoBaseline
  /\ arg = Null
  /\ out = NoOut
  /\ NoRuns
  /\ zoneGain = 0

SpecTimestamp == InitTimestamp /\ [][NextMapped]_vars

\* A text of the form YYYY-MM-DDT...
StatedTimestamp(s) == Len(s) >= 11 /\ IsIsoDate(SubSeq(s, 1, 10)) /\ s[11] = "T"

\* The pair i of a partial match is among its discrepancy columns.
Counted(entry, i) ==
  \E k \in DOMAIN entry.discrepancyColumns : entry.discrepancyColumns[k] = i

\* The texts compared for the pair i of a partial match.
GstText(entry, i) == JsCell(Field(RowById(gstTable, entry.gst).cells, i))
TallyText(entry, i) == JsCell(Field(RowById(tallyTable, entry.tally).cells, i))

\* C23: in the discrepancy counting of /api/reconcile-mapped-data a value of
\* the form YYYY-MM-DDT... is reduced to its first ten characters on both
\* sides: a timestamp and a date-only value with its date are not counted as
\* a discrepancy, and two timestamps are counted exactly when their date
\* parts differ.
C23_TimestampsComparedByDate ==
  MappedLooped =>
    \A k \in DOMAIN mapped.partial :
      \A i \in 1..Len(gstColumns) :
        LET entry == mapped.partial[k] IN
        /\ (StatedTimestamp(GstText(entry, i))
              /\ TallyText(entry, i) = SubSeq(GstText(entry, i), 1, 10))
             => ~Counted(entry, i)
        /\ (StatedTimestamp(TallyText(entry, i))
              /\ GstText(entry, i) = SubSeq(TallyText(entry, i), 1, 10))
             => ~Counted(entry, i)
        /\ (StatedTimestamp(GstText(entry, i)) /\ StatedTimestamp(TallyText(entry, i)))
             => (Counted(entry, i)
                   <=> SubSeq(GstText(entry, i), 1, 10) # SubSeq(TallyText(entry, i), 1, 10))

\* Two timestamps of the same day with different times are paired in a
\* partial match that counts the second column only, and a date-only value is
\* paired with a timestamp of its day.
C23_Witness ==
  /\ MappedLooped
  /\ \E k \in DOMAIN mapped.partial :
       /\ GstText(mapped.partial[k], 1) = Stamp15
       /\ TallyText(mapped.partial[k], 1) = Stamp15Late
       /\ mapped.partial[k].discrepancyColumns = <<2>>
  /\ \E k \in DOMAIN mapped.partial :
       /\ GstText(mapped.partial[k], 1) = Day15
       /\ StatedTimestamp(TallyText(mapped.partial[k], 1))
       /\ ~Counted(mapped.partial[k], 1)

\* The text holds no number once everything but digits, '.' and '-' is
\* taken out: what is left does not start with a digit, a point and a digit,
\* or one '-' before either.
HoldsNoNumber(text) ==
  LET kept == SelectSeq(text, LAMBDA c : IsDigit(c) \/ c = "." \/ c = "-")
      body == IF kept # <<>> /\ kept[1] = "-" THEN Tail(kept) ELSE kept
  IN ~(\/ (Len(body) >= 1 /\ IsDigit(body[1]))
       \/ (Len(body) >= 2 /\ body[1] = "." /\ IsDigit(body[2])))

\* The value of a whole decimal numeral with at most two decimals, in hundredths.
PlainAmount(s) ==
  NumeralInt(s) * Unit
    + (IF Len(NumeralFrac(s)) >= 1 THEN 10 * DigitVal(NumeralFrac(s)[1]) ELSE 0)
    + (IF Len(NumeralFrac(s)) >= 2 THEN DigitVal(NumeralFrac(s)[2]) ELSE 0)

\* The pair i of a partial match compares a value that holds no number with
\* a whole numeral.
NoNumberAgainstAmount(entry, i) ==
  \/ HoldsNoNumber(GstText(entry, i)) /\ IsNumeral(TallyText(entry, i))
  \/ HoldsNoNumber(TallyText(entry, i)) /\ IsNumeral(GstText(entry, i))

\* The amount of that numeral.
AmountAgainst(entry, i) ==
  IF IsNumeral(TallyText(entry, i)) THEN PlainAmount(TallyText(entry, i))
  ELSE PlainAmount(GstText(entry, i))

MaxRequests == 2
\* Largest value of Date.now(), in milliseconds after the first request.
MaxClock == 1

\* The uploads: the first column holds the invoice date.
RunSheets ==
  {<<RowOne(1, DateCell, a)>>,
   <<RowOne(1, DateCell, a), RowOne(1, NoDayCell, a)>>}

\* A request that has not read its upload.
NewRequest(gst, tally) ==
  [pc |-> "start", gst_data |-> gst, tally_data |-> tally, logId |-> 0,
   gstDateColumns |-> {}, tallyDateColumns |-> {}, next |-> 1, status |-> 0]

InitParallel ==
  /\ gstData = <<>>
  /\ tallyData = <<>>
  /\ gstColumns \in {Cols(1), <<EmptyCol>>}
  /\ tallyColumns = Cols(1)
  /\ gstHeader \in {HeaderOf(n, Amount, Igst) : n \in {InvoiceDate, InvoiceNo}}
  /\ tallyHeader = HeaderOf(InvoiceDate, Amt, Tax)
  /\ pc = "returned"
  /\ tallyMap = <<>>
  /\ matchedGstIds = {}
  /\ matchedTallyIds = {}
  /\ exactMatches = <<>>
  /\ partialMatches = <<>>
  /\ gstMismatches = <<>>
  /\ tallyMismatches = <<>>
  /\ gstTable = <<>>
  /\ tallyTable = <<>>
  /\ intersectRows = <<>>
  /\ mapped = NoMapped
  /\ gstDateColumns = {}
  /\ tallyDateColumns = {}
  /\ api = NoApi
  /\ baseline = NoBaseline
  /\ arg = Null
  /\ out = NoOut
  /\ clock = 0
  /\ requests \in [1..MaxRequests -> {NewRequest(g, <<RowOne(1, DateCell, a)>>) : g \in RunSheets}]
  /\ tables = <<>>
  /\ mappingLogs = <<>>
  /\ zoneGain = 0

nonRunVars == <<inputVars, pc, memVars, dbVars, api, baseline, arg, out>>

\* Date.now() grows while the requests are served.
Tick ==
  /\ clock < MaxClock
  /\ clock' = clock + 1
  /\ UNCHANGED <<nonRunVars, requests, tables, mappingLogs>>

\* `gst_mapped_log_${logId}`, `tally_mapped_log_${logId}`
TableName(side, logId) == [side |-> side, logId |-> logId]

\* await pool.query('SELECT gst_data, tally_data FROM uploads WHERE id = $1')
LoadUpload(r) ==
  /\ requests[r].pc = "start"
  /\ requests' = [requests EXCEPT ![r].pc = "loaded"]
  /\ UNCHANGED <<nonRunVars, clock, tables, mappingLogs>>

\* CREATE TABLE IF NOT EXISTS: a table of that name is left as it is.
CreateTable(name, dateCols) ==
  IF name \in DOMAIN tables THEN tables
  ELSE [n \in DOMAIN tables \cup {name} |->
          IF n = name THEN [dateColumns |-> dateCols, rows |-> <<>>] ELSE tables[n]]

\* From the upload read to the first CREATE TABLE: the mapping is filtered,
\* the date columns are detected and the table names are made of Date.now().
CreateGstTable(r) ==
  /\ requests[r].pc = "loaded"
  /\ IF Len(ValidMappings) = 0
       THEN /\ requests' = [requests EXCEPT ![r].pc = "rejected", ![r].status = 400]
            /\ UNCHANGED tables
       ELSE /\ requests' =
                 [requests EXCEPT
                    ![r].pc = "gstCreated",
                    ![r].logId = clock,
                    ![r].gstDateColumns = DateColumnsOf(requests[r].gst_data, gstHeader, gstColumns),
                    ![r].tallyDateColumns = DateColumnsOf(requests[r].tally_data, tallyHeader, tallyColumns)]
            /\ tables' = CreateTable(TableName("gst", clock),
                                     DateColumnsOf(requests[r].gst_data, gstHeader, gstColumns))
  /\ UNCHANGED <<nonRunVars, clock, mappingLogs>>

CreateTallyTable(r) ==
  /\ requests[r].pc = "gstCreated"
  /\ requests' = [requests EXCEPT ![r].pc = "insertGst"]
  /\ tables' = CreateTable(TableName("tally", requests[r].logId), requests[r].tallyDateColumns)
  /\ UNCHANGED <<nonRunVars, clock, mappingLogs>>

\* The table takes the values: a DATE column takes null or a calendar day.
TableAccepts(table, values, cols) ==
  \A k \in 1..Len(ValidMappings) :
    cols[ValidMappings[k]] \in table.dateColumns => PgDateAccepts(values[k])

\* The table after INSERT INTO ... VALUES of the request r.
InsertInto(table, values, cols, r) ==
  [table EXCEPT !.rows =
     Append(@, [run |-> r, row |-> MappedRow(values, cols, table.dateColumns, Len(@) + 1)])]

\* One turn of a for loop over the rows of a sheet: the insert of the row
\* `next` into the table `name`, or the error thrown by the insert; after the
\* last row the request goes on at `after`.
InsertRow(r, data, cols, dateCols, name, after) ==
  IF TableAccepts(tables[name], InsertValues(data[requests[r].next], cols, dateCols), cols)
    THEN /\ tables' = [tables EXCEPT ![name] =
                         InsertInto(@, InsertValues(data[requests[r].next], cols, dateCols), cols, r)]
         /\ requests' = IF requests[r].next < Len(data)
                          THEN [requests EXCEPT ![r].next = @ + 1]
                          ELSE [requests EXCEPT ![r].next = 1, ![r].pc = after]
    ELSE /\ requests' = [requests EXCEPT ![r].pc = "failed", ![r].status = 500]
         /\ UNCHANGED tables

InsertGstRow(r) ==
  /\ requests[r].pc = "insertGst"
  /\ InsertRow(r, requests[r].gst_data, gstColumns, requests[r].gstDateColumns,
               TableName("gst", requests[r].logId), "insertTally")
  /\ UNCHANGED <<nonRunVars, clock, mappingLogs>>

InsertTallyRow(r) ==
  /\ requests[r].pc = "insertTally"
  /\ InsertRow(r, requests[r].tally_data, tallyColumns, requests[r].tallyDateColumns,
               TableName("tally", requests[r].logId), "log")
  /\ UNCHANGED <<nonRunVars, clock, mappingLogs>>

\* INSERT INTO mapping_logs, then the answer 200.
StoreMappingLog(r) ==
  /\ requests[r].pc = "log"
  /\ mappingLogs' = Append(mappingLogs,
                           [upload_id |-> r,
                            gst_table_name |-> TableName("gst", requests[r].logId),
                            tally_table_name |-> TableName("tally", requests[r].logId)])
  /\ requests' = [requests EXCEPT ![r].pc = "done", ![r].status = 200]
  /\ UNCHANGED <<nonRunVars, clock, tables>>

NextParallel ==
  \/ Tick
  \/ \E r \in DOMAIN requests : LoadUpload(r)
  \/ \E r \in DOMAIN requests : CreateGstTable(r)
  \/ \E r \in DOMAIN requests : CreateTallyTable(r)
  \/ \E r \in DOMAIN requests : InsertGstRow(r)
  \/ \E r \in DOMAIN requests : InsertTallyRow(r)
  \/ \E r \in DOMAIN requests : StoreMappingLog(r)

SpecParallel == InitParallel /\ [][NextParallel]_vars

\* The request has named its tables.
Named(r) == requests[r].pc \notin {"start", "loaded", "rejected"}

\* The names of the tables of a request.
TablesOf(r) == {TableName("gst", requests[r].logId), TableName("tally", requests[r].logId)}

\* C21: two /api/save-mapping requests served at once never create or insert
\* into the same mapped tables: their table names differ and every row of a
\* request's tables was inserted by that request.
C21_RunsShareNoTable ==
  \A r, q \in DOMAIN requests :
    (r # q /\ Named(r) /\ Named(q)) =>
      /\ TablesOf(r) \cap TablesOf(q) = {}
      /\ \A name \in TablesOf(r) \cap DOMAIN tables :
           \A i \in DOMAIN tables[name].rows : tables[name].rows[i].run = r

\* Every request has been answered.
AllAnswered == \A r \in DOMAIN requests : requests[r].status # 0

\* C30: /api/save-mapping is all-or-nothing: no mapped table of a request
\* answered with an error remains, and once every request is answered each
\* mapped table that exists is named by a row of mapping_logs.
C30_SaveMappingAllOrNothing ==
  /\ \A r \in DOMAIN requests :
       requests[r].pc = "failed" => TablesOf(r) \cap DOMAIN tables = {}
  /\ AllAnswered =>
       \A name \in DOMAIN tables :
         \E k \in DOMAIN mappingLogs :
           name \in {mappingLogs[k].gst_table_name, mappingLogs[k].tally_table_name}

====
